---- MODULE Spec2Model ----
(***************************************************************************)
(* Verification model of the shifting-codes obfuscation core:             *)
(* the pass pipeline, the arithmetic rewriters (substitution, MBA, bogus  *)
(* control flow, indirect branch/call), global/string encryption,         *)
(* control-flow flattening and the bytecode virtual machine.              *)
(*                                                                         *)
(* Each subsystem has its own group of variables and its own              *)
(* specification; the groups a specification does not use stay idle.      *)
(***************************************************************************)
EXTENDS Integers, Sequences, FiniteSets, TLC

VARIABLES
    \* --- SubstitutionPass: one binary instruction being rewritten
    sub_pc, sub_width, sub_opcode, sub_a, sub_b, sub_choice, sub_r, sub_result,
    \* --- BogusControlFlowPass: execution of one transformed block
    bcf_pc, bcf_loaded, bcf_x, bcf_y, bcf_trace,
    \* --- IndirectBranchPass: one rewritten branch and its execution
    ibr_pc, ibr_kind, ibr_cond, ibr_rand, ibr_table, ibr_index, ibr_target,
    \* --- MBAObfuscationPass: coefficient generation, one rewritten instruction
    mba_pc, mba_n, mba_nonzero, mba_equ, mba_coeffs, mba_opcode, mba_width,
    mba_wide, mba_a, mba_b, mba_terms, mba_linear, mba_poly, mba_result,
    \* --- IndirectCallPass: one call site, its rewriting and its execution
    ic_pc, ic_callee, ic_addr, ic_args, ic_cc, ic_mask, ic_gv, ic_new_call,
    ic_uses, ic_target,
    \* --- PassPipeline.run over a module
    pipe_pc, pipe_passes, pipe_selected, pipe_eligible, pipe_compilable,
    pipe_functions, pipe_i, pipe_calls, pipe_virtualized, pipe_obfuscated,
    pipe_attrs, pipe_changed,
    \* --- GlobalEncryptionPass / StringEncryptionPass: one constant global
    ge_pc, ge_pass, ge_type, ge_plain, ge_uses, ge_key, ge_mem, ge_copy,
    \* --- FlatteningPass: a function's control-flow graph, the pass's tables
    \* and an execution of the flattened function
    flat_pc, flat_cur, flat_term, flat_block_state, flat_dominates, flat_key_list,
    flat_key_map, flat_state_var, flat_keys, flat_visited, flat_last,
    \* --- VirtualizationPass: one function compiled to bytecode and interpreted
    vm_pc, vm_func, vm_argv, vm_code, vm_args, vm_regs, vm_ipc, vm_stack,
    vm_ret_slot, vm_result, vm_host, vm_last,
    \* --- generate_linear_mba and its cache across runs of MBAObfuscationPass
    mc_pc, mc_run, mc_n, mc_heap, mc_cache, mc_ret, mc_hit, mc_stream, mc_pos,
    mc_out,
    \* --- CustomCCPass: the functions of a module and its direct call sites
    cc_pc, cc_funcs, cc_sites,
    \* --- bytecode ISA codec
    isa_pc, isa_args, isa_word, isa_rel,
    \* --- VirtualizationPass.run_on_module over a module
    virt_pc, virt_funcs, virt_ir, virt_i, virt_compiled, virt_errors,
    virt_interp, virt_bytecode, virt_hosts, virt_tables,
    \* --- constant loading
    li_pc, li_c, li_code, li_k, li_reg,
    \* --- RegisterAllocator
    ra_alloc, ra_num_args, ra_allocas, ra_holds, ra_live, ra_read,
    ra_switch, ra_raised,
    \* --- the visited array of a flattened function
    fv_pc, fv_n, fv_zeroed, fv_access

vars == <<sub_pc, sub_width, sub_opcode, sub_a, sub_b, sub_choice, sub_r,
          sub_result, bcf_pc, bcf_loaded, bcf_x, bcf_y, bcf_trace, ibr_pc,
          ibr_kind, ibr_cond, ibr_rand, ibr_table, ibr_index, ibr_target,
          mba_pc, mba_n, mba_nonzero, mba_equ, mba_coeffs, mba_opcode,
          mba_width, mba_wide, mba_a, mba_b, mba_terms, mba_linear, mba_poly,
          mba_result, ic_pc, ic_callee, ic_addr, ic_args, ic_cc, ic_mask,
          ic_gv, ic_new_call, ic_uses, ic_target, pipe_pc, pipe_passes,
          pipe_selected, pipe_eligible, pipe_compilable, pipe_functions,
          pipe_i, pipe_calls, pipe_virtualized, pipe_obfuscated, pipe_attrs,
          pipe_changed, ge_pc, ge_pass, ge_type, ge_plain, ge_uses, ge_key,
          ge_mem, ge_copy, flat_pc, flat_cur, flat_term, flat_block_state,
          flat_dominates, flat_key_list, flat_key_map, flat_state_var,
          flat_keys, flat_visited, flat_last, vm_pc, vm_func, vm_argv,
          vm_code, vm_args, vm_regs, vm_ipc, vm_stack, vm_ret_slot, vm_result,
          vm_host, vm_last, mc_pc, mc_run, mc_n, mc_heap, mc_cache, mc_ret,
          mc_hit, mc_stream, mc_pos, mc_out, cc_pc, cc_funcs, cc_sites,
          isa_pc, isa_args, isa_word, isa_rel, virt_pc, virt_funcs, virt_ir,
          virt_i, virt_compiled, virt_errors, virt_interp, virt_bytecode,
          virt_hosts, virt_tables, li_pc, li_c, li_code, li_k, li_reg,
          ra_alloc, ra_num_args, ra_allocas, ra_holds, ra_live, ra_read,
          ra_switch, ra_raised, fv_pc, fv_n, fv_zeroed, fv_access>>

(***************************************************************************)
(* Subsystems that a specification does not exercise stay idle.            *)
(***************************************************************************)
\* The initial condition of every subsystem but g.
OthersIdle(g) ==
    /\ IF g = "sub" THEN TRUE ELSE
           (sub_pc = "idle" /\ sub_width = 0 /\ sub_opcode = "none"
            /\ sub_a = 0 /\ sub_b = 0 /\ sub_choice = 0 /\ sub_r = 0
            /\ sub_result = 0)
    /\ IF g = "bcf" THEN TRUE ELSE
           (bcf_pc = "idle" /\ bcf_loaded = FALSE /\ bcf_x = 0 /\ bcf_y = 0
            /\ bcf_trace = <<>>)
    /\ IF g = "ibr" THEN TRUE ELSE
           (ibr_pc = "idle" /\ ibr_kind = "none" /\ ibr_cond = FALSE
            /\ ibr_rand = 0 /\ ibr_table = <<>> /\ ibr_index = 0
            /\ ibr_target = "none")
    /\ IF g = "mba" THEN TRUE ELSE
           (mba_pc = "idle" /\ mba_n = 0 /\ mba_nonzero = FALSE
            /\ mba_equ = <<>> /\ mba_coeffs = <<>> /\ mba_opcode = "none"
            /\ mba_width = 0 /\ mba_wide = FALSE /\ mba_a = 0 /\ mba_b = 0
            /\ mba_terms = 0 /\ mba_linear = 0 /\ mba_poly = <<>>
            /\ mba_result = 0)
    /\ IF g = "ic" THEN TRUE ELSE
           (ic_pc = "idle" /\ ic_callee = "none" /\ ic_addr = 0
            /\ ic_args = <<>> /\ ic_cc = "none" /\ ic_mask = 0
            /\ ic_gv = "none" /\ ic_new_call = <<>> /\ ic_uses = "none"
            /\ ic_target = 0)
    /\ IF g = "pipe" THEN TRUE ELSE
           (pipe_pc = "idle" /\ pipe_passes = <<>> /\ pipe_selected = <<>>
            /\ pipe_eligible = {} /\ pipe_compilable = {}
            /\ pipe_functions = {} /\ pipe_i = 0 /\ pipe_calls = <<>>
            /\ pipe_virtualized = {} /\ pipe_obfuscated = {}
            /\ pipe_attrs = {} /\ pipe_changed = FALSE)
    /\ IF g = "ge" THEN TRUE ELSE
           (ge_pc = "idle" /\ ge_pass = "none" /\ ge_type = <<>>
            /\ ge_plain = <<>> /\ ge_uses = {} /\ ge_key = 0 /\ ge_mem = <<>>
            /\ ge_copy = <<>>)
    /\ IF g = "flat" THEN TRUE ELSE
           (flat_pc = "idle" /\ flat_cur = 0 /\ flat_term = <<>>
            /\ flat_block_state = <<>> /\ flat_dominates = <<>>
            /\ flat_key_list = <<>> /\ flat_key_map = <<>>
            /\ flat_state_var = 0 /\ flat_keys = <<>> /\ flat_visited = <<>>
            /\ flat_last = <<>>)
    /\ IF g = "vm" THEN TRUE ELSE
           (vm_pc = "idle" /\ vm_func = <<>> /\ vm_argv = <<>>
            /\ vm_code = <<>> /\ vm_args = <<>> /\ vm_regs = <<>>
            /\ vm_ipc = 0 /\ vm_stack = <<>> /\ vm_ret_slot = 0
            /\ vm_result = 0 /\ vm_host = <<>> /\ vm_last = 0)
    /\ IF g = "mc" THEN TRUE ELSE
           (mc_pc = "idle" /\ mc_run = 0 /\ mc_n = 0 /\ mc_heap = <<>>
            /\ mc_cache = <<>> /\ mc_ret = 0 /\ mc_hit = FALSE
            /\ mc_stream = <<>> /\ mc_pos = 0 /\ mc_out = <<>>)
    /\ IF g = "cc" THEN TRUE ELSE
           (cc_pc = "idle" /\ cc_funcs = <<>> /\ cc_sites = <<>>)
    /\ IF g = "isa" THEN TRUE ELSE
           (isa_pc = "idle" /\ isa_args = <<>> /\ isa_word = <<>>
            /\ isa_rel = 0)
    /\ IF g = "virt" THEN TRUE ELSE
           (virt_pc = "idle" /\ virt_funcs = <<>> /\ virt_ir = <<>>
            /\ virt_i = 0 /\ virt_compiled = {} /\ virt_errors = {}
            /\ virt_interp = FALSE /\ virt_bytecode = <<>>
            /\ virt_hosts = <<>> /\ virt_tables = <<>>)
    /\ IF g = "li" THEN TRUE ELSE
           (li_pc = "idle" /\ li_c = 0 /\ li_code = <<>> /\ li_k = 0
            /\ li_reg = <<>>)
    /\ IF g = "ra" THEN TRUE ELSE
           (ra_alloc = <<>> /\ ra_num_args = 0 /\ ra_allocas = <<>>
            /\ ra_holds = <<>> /\ ra_live = {}
            /\ ra_read = <<>> /\ ra_switch = <<>> /\ ra_raised = FALSE)
    /\ IF g = "fv" THEN TRUE ELSE
           (fv_pc = "idle" /\ fv_n = 0 /\ fv_zeroed = {} /\ fv_access = <<>>)

\* A step of subsystem g leaves the others alone.
Frame(g) ==
    /\ IF g = "sub" THEN TRUE ELSE
           UNCHANGED <<sub_pc, sub_width, sub_opcode, sub_a, sub_b, sub_choice,
                       sub_r, sub_result>>
    /\ IF g = "bcf" THEN TRUE ELSE
           UNCHANGED <<bcf_pc, bcf_loaded, bcf_x, bcf_y, bcf_trace>>
    /\ IF g = "ibr" THEN TRUE ELSE
           UNCHANGED <<ibr_pc, ibr_kind, ibr_cond, ibr_rand, ibr_table, ibr_index,
                       ibr_target>>
    /\ IF g = "mba" THEN TRUE ELSE
           UNCHANGED <<mba_pc, mba_n, mba_nonzero, mba_equ, mba_coeffs, mba_opcode,
                       mba_width, mba_wide, mba_a, mba_b, mba_terms, mba_linear,
                       mba_poly, mba_result>>
    /\ IF g = "ic" THEN TRUE ELSE
           UNCHANGED <<ic_pc, ic_callee, ic_addr, ic_args, ic_cc, ic_mask, ic_gv,
                       ic_new_call, ic_uses, ic_target>>
    /\ IF g = "pipe" THEN TRUE ELSE
           UNCHANGED <<pipe_pc, pipe_passes, pipe_selected, pipe_eligible,
                       pipe_compilable, pipe_functions, pipe_i, pipe_calls,
                       pipe_virtualized, pipe_obfuscated, pipe_attrs, pipe_changed>>
    /\ IF g = "ge" THEN TRUE ELSE
           UNCHANGED <<ge_pc, ge_pass, ge_type, ge_plain, ge_uses, ge_key, ge_mem,
                       ge_copy>>
    /\ IF g = "flat" THEN TRUE ELSE
           UNCHANGED <<flat_pc, flat_cur, flat_term, flat_block_state,
                       flat_dominates, flat_key_list, flat_key_map, flat_state_var,
                       flat_keys, flat_visited, flat_last>>
    /\ IF g = "vm" THEN TRUE ELSE
           UNCHANGED <<vm_pc, vm_func, vm_argv, vm_code, vm_args, vm_regs, vm_ipc,
                       vm_stack, vm_ret_slot, vm_result, vm_host,
                       vm_last>>
    /\ IF g = "mc" THEN TRUE ELSE
           UNCHANGED <<mc_pc, mc_run, mc_n, mc_heap, mc_cache, mc_ret, mc_hit,
                       mc_stream, mc_pos, mc_out>>
    /\ IF g = "cc" THEN TRUE ELSE
           UNCHANGED <<cc_pc, cc_funcs, cc_sites>>
    /\ IF g = "isa" THEN TRUE ELSE
           UNCHANGED <<isa_pc, isa_args, isa_word, isa_rel>>
    /\ IF g = "virt" THEN TRUE ELSE
           UNCHANGED <<virt_pc, virt_funcs, virt_ir, virt_i, virt_compiled,
                       virt_errors, virt_interp, virt_bytecode, virt_hosts,
                       virt_tables>>
    /\ IF g = "li" THEN TRUE ELSE
           UNCHANGED <<li_pc, li_c, li_code, li_k, li_reg>>
    /\ IF g = "ra" THEN TRUE ELSE
           UNCHANGED <<ra_alloc, ra_num_args, ra_allocas, ra_holds, ra_live,
                       ra_read, ra_switch, ra_raised>>
    /\ IF g = "fv" THEN TRUE ELSE
           UNCHANGED <<fv_pc, fv_n, fv_zeroed, fv_access>>

(***************************************************************************)
(* Bounds of the model.                                                    *)
(***************************************************************************)
\* Largest integer width (in bits) of a rewritten instruction.
MaxWidth == 3
\* Width (in bits) standing for the 32 bits of i32 in the opaque predicates.
BcfWidth == 5
\* Width (in bits) standing for the 32 bits of the jump-table index.
IbrWidth == 5
\* Number of expressions of a linear MBA (NUM_COEFFS is 5 in the pass).
MbaNumExprs == 3
\* Bound of the solver on each coefficient (10 in the generator).
MbaCoeffBound == 1
\* Largest integer width of an instruction the MBA pass rewrites.
MbaMaxWidth == 2
\* Length of the coefficient cache at which it is served from (100 in the
\* generator, which is also the deque's maxlen).
CacheMax == 2
\* Number of truth tables the index draws of a cached generator range over
\* (rng.get_range(15) in the generator); the other draws of the random
\* source range over as many values.
McTables == 3
\* Width (in bits) standing for the 64 bits of a pointer as an integer.
IcPtrWidth == 4
\* Largest number of arguments of a call site.
IcMaxArgs == 2
\* Number of direct call sites of the module CustomCCPass runs on.
CcNumSites == 2
\* Largest number of passes in a pipeline.
PipeMaxPasses == 2
\* Width (in bits) standing for the 8 bits of a byte.
ByteBits == 2
\* Largest number of elements of an encrypted array.
GeMaxLen == 2
\* Number of blocks after the entry block of a flattened function.
FlatNumBlocks == 3
\* Width (in bits) standing for the 31 bits of a block key.
FlatKeyBits == 1
\* Width (in bits) standing for the 32 bits of the state word.
FlatStateBits == 3
\* Width (in bits) standing for the 32 bits of an i32 argument of a
\* virtualized function.
VmIntBits == 3
\* Width (in bits) standing for the 64 bits of a register of the virtual
\* machine; wide enough for the stack addresses and the exit syscall number.
VmRegBits == 16

(***************************************************************************)
(* Integer helpers: LLVM integer instructions at a given bit width.       *)
(***************************************************************************)
Pow2(n) == 2 ^ n

\* Values of an integer type of width w.
IntVals(w) == 0 .. (Pow2(w) - 1)

\* type.constant(v): the value is truncated to the width of the type.
TypeConstant(v, w) == v % Pow2(w)

\* Bitwise operation given by a truth table <<f(0,0), f(0,1), f(1,0), f(1,1)>>,
\* applied to every bit position of a and b.
RECURSIVE Bitwise(_, _, _, _)
Bitwise(tt, a, b, w) ==
    IF w = 0 THEN 0
    ELSE tt[2 * (a % 2) + (b % 2) + 1]
         + 2 * Bitwise(tt, a \div 2, b \div 2, w - 1)

IrAnd(a, b, w) == Bitwise(<<0, 0, 0, 1>>, a, b, w)
IrOr(a, b, w)  == Bitwise(<<0, 1, 1, 1>>, a, b, w)
IrXor(a, b, w) == Bitwise(<<0, 1, 1, 0>>, a, b, w)
IrNot(a, w)    == Bitwise(<<1, 1, 0, 0>>, a, a, w)
IrAdd(a, b, w) == (a + b) % Pow2(w)
IrSub(a, b, w) == (a - b + Pow2(w)) % Pow2(w)
IrMul(a, b, w) == (a * b) % Pow2(w)
IrNeg(a, w)    == IrSub(0, a, w)
\* Two's-complement reading of a w-bit value.
ToSigned(a, w) == IF a >= Pow2(w - 1) THEN a - Pow2(w) ELSE a

(***************************************************************************)
(* SubstitutionPass (passes/substitution.py)                               *)
(***************************************************************************)
\* The instruction before the pass.
OrigBinOp(opcode, a, b, w) ==
    CASE opcode = "Add" -> IrAdd(a, b, w)
      [] opcode = "Sub" -> IrSub(a, b, w)
      [] opcode = "And" -> IrAnd(a, b, w)
      [] opcode = "Or"  -> IrOr(a, b, w)
      [] opcode = "Xor" -> IrXor(a, b, w)

\* a + b -> a - (-b)
add_neg(a, b, w) == IrSub(a, IrNeg(b, w), w)
\* a + b -> -(-a + (-b))
add_double_neg(a, b, w) == IrNeg(IrAdd(IrNeg(a, w), IrNeg(b, w), w), w)
\* a + b -> (a + r) + b - r
add_rand(a, b, r, w) == IrSub(IrAdd(IrAdd(a, r, w), b, w), r, w)
\* a + b -> (a - r) + b + r
add_rand2(a, b, r, w) == IrAdd(IrAdd(IrSub(a, r, w), b, w), r, w)
\* a - b -> a + (-b)
sub_neg(a, b, w) == IrAdd(a, IrNeg(b, w), w)
\* a - b -> (a + r) - b - r
sub_rand(a, b, r, w) == IrSub(IrSub(IrAdd(a, r, w), b, w), r, w)
\* A faulty variant of the last pattern: the constant is subtracted again
\* instead of being added back.
sub_rand2_no_restore(a, b, r, w) == IrSub(IrSub(IrSub(a, r, w), b, w), r, w)
\* a - b -> (a - r) - b + r
sub_rand2(a, b, r, w) == IrAdd(IrSub(IrSub(a, r, w), b, w), r, w)
\* a & b -> (a ^ ~b) & a
and_substitute(a, b, w) == IrAnd(IrXor(a, IrNot(b, w), w), a, w)
\* a & b -> ~(~a | ~b) & (r | ~r)
and_substitute_rand(a, b, r, w) ==
    IrAnd(IrNot(IrOr(IrNot(a, w), IrNot(b, w), w), w), IrOr(r, IrNot(r, w), w), w)
\* a | b -> (a & b) | (a ^ b)
or_substitute(a, b, w) == IrOr(IrAnd(a, b, w), IrXor(a, b, w), w)
\* a | b -> ~(~a & ~b) & (r | ~r)
or_substitute_rand(a, b, r, w) ==
    IrAnd(IrNot(IrAnd(IrNot(a, w), IrNot(b, w), w), w), IrOr(r, IrNot(r, w), w), w)
\* a ^ b -> (~a & b) | (a & ~b)
xor_substitute(a, b, w) == IrOr(IrAnd(IrNot(a, w), b, w), IrAnd(a, IrNot(b, w), w), w)
\* a ^ b -> (~a & r | a & ~r) ^ (~b & r | b & ~r)
xor_substitute_rand(a, b, r, w) ==
    IrXor(IrOr(IrAnd(IrNot(a, w), r, w), IrAnd(a, IrNot(r, w), w), w),
          IrOr(IrAnd(IrNot(b, w), r, w), IrAnd(b, IrNot(r, w), w), w), w)

\* _substitute and the _substitute_<op> it dispatches to: the variant
\* drawn for the opcode.
substitute(opcode, choice, a, b, r, w) ==
    CASE opcode = "Add" ->
             (CASE choice = 0 -> add_neg(a, b, w)
                [] choice = 1 -> add_double_neg(a, b, w)
                [] choice = 2 -> add_rand(a, b, r, w)
                [] OTHER      -> add_rand2(a, b, r, w))
      [] opcode = "Sub" ->
             (CASE choice = 0 -> sub_neg(a, b, w)
                [] choice = 1 -> sub_rand(a, b, r, w)
                [] OTHER      -> sub_rand2(a, b, r, w))
      [] opcode = "And" ->
             (IF choice = 0 THEN and_substitute(a, b, w)
              ELSE and_substitute_rand(a, b, r, w))
      [] opcode = "Or"  ->
             (IF choice = 0 THEN or_substitute(a, b, w)
              ELSE or_substitute_rand(a, b, r, w))
      [] opcode = "Xor" ->
             (IF choice = 0 THEN xor_substitute(a, b, w)
              ELSE xor_substitute_rand(a, b, r, w))

\* A two-operand integer instruction of one of the five opcodes, any operands.
SubInit ==
    /\ sub_pc = "collected"
    /\ sub_width \in 1 .. MaxWidth
    /\ sub_opcode \in {"Add", "Sub", "And", "Or", "Xor"}
    /\ sub_a \in IntVals(sub_width)
    /\ sub_b \in IntVals(sub_width)
    /\ sub_choice = 0
    /\ sub_r = 0
    /\ sub_result = 0
    /\ OthersIdle("sub")

\* _run_on_block for one collected instruction: draw the variant
\* (rng.get_range(4) for an add, 3 for a sub, 2 for the others) and the
\* random constant (rng.get_uint32(), one bit wider here than the widest
\* type, so that the constant built from it is truncated), build the
\* replacement and redirect the uses to it.
SubRunOnBlock ==
    /\ sub_pc = "collected"
    /\ \E choice \in 0 .. (CASE sub_opcode = "Add" -> 3
                             [] sub_opcode = "Sub" -> 2
                             [] OTHER -> 1),
          r32 \in IntVals(MaxWidth + 1) :
          /\ sub_choice' = choice
          /\ sub_r' = TypeConstant(r32, sub_width)
          /\ sub_result' = substitute(sub_opcode, choice, sub_a, sub_b,
                                       TypeConstant(r32, sub_width), sub_width)
    /\ sub_pc' = "replaced"
    /\ UNCHANGED <<sub_width, sub_opcode, sub_a, sub_b>>
    /\ Frame("sub")

SpecSub ==
    SubInit /\ [][SubRunOnBlock]_vars

\* C5: every substitution pattern computes the result of the instruction it
\* replaces, modulo 2^width, for all operands and every random constant.
SubstitutionPreservesValue ==
    sub_pc = "replaced" => sub_result = OrigBinOp(sub_opcode, sub_a, sub_b, sub_width)

\* A pattern with a random constant has replaced a subtraction whose operands
\* wrap around.
SubstitutionWitness ==
    /\ sub_pc = "replaced" /\ sub_opcode = "Sub" /\ sub_choice = 2
    /\ sub_a < sub_b /\ sub_r > sub_a /\ sub_width = MaxWidth

(***************************************************************************)
(* BogusControlFlowPass (passes/bogus_control_flow.py)                     *)
(***************************************************************************)
\* A faulty variant of the opaque predicate: x * (x + 2) is odd for odd x.
create_bogus_cmp_plus_two(x, y, w) ==
    LET cond1 == ToSigned(y, w) < ToSigned(TypeConstant(10, w), w)
        xp1   == IrAdd(x, TypeConstant(2, w), w)
        xmul  == IrMul(x, xp1, w)
        xmod  == xmul % TypeConstant(2, w)
        cond2 == xmod = 0
    IN  cond1 \/ cond2

\* _create_bogus_cmp: (y < 10) | (x * (x + 1) urem 2 == 0) on the values
\* loaded from the two private globals.
create_bogus_cmp(x, y, w) ==
    LET cond1 == ToSigned(y, w) < ToSigned(TypeConstant(10, w), w)
        xp1   == IrAdd(x, TypeConstant(1, w), w)
        xmul  == IrMul(x, xp1, w)
        xmod  == xmul % TypeConstant(2, w)
        cond2 == xmod = 0
    IN  cond1 \/ cond2

\* The rewired terminators: head -> (cond ? body : clone),
\* body -> (cond ? tail : clone), clone -> body.
bcf_successor(block, cond) ==
    CASE block = "head"  -> IF cond THEN "body" ELSE "clone"
      [] block = "body"  -> IF cond THEN "tail" ELSE "clone"
      [] block = "clone" -> "body"

\* Control is at the start of the head block of a transformed block.
BcfInit ==
    /\ bcf_pc = "head"
    /\ bcf_loaded = FALSE
    /\ bcf_x = 0
    /\ bcf_y = 0
    /\ bcf_trace = <<>>
    /\ OthersIdle("bcf")

\* The loads of the predicate's two private globals, bcf.x and bcf.y: the
\* predicate has to hold whatever they return.
BcfLoad ==
    /\ bcf_pc \in {"head", "body"}
    /\ ~bcf_loaded
    /\ \E x \in IntVals(BcfWidth), y \in IntVals(BcfWidth) :
          /\ bcf_x' = x
          /\ bcf_y' = y
    /\ bcf_loaded' = TRUE
    /\ UNCHANGED <<bcf_pc, bcf_trace>>
    /\ Frame("bcf")

\* The terminator of the current block: the predicate is computed from the
\* loaded values and control moves to the successor, where the values of
\* this block are dead.
BcfExecTerminator ==
    /\ \/ bcf_pc \in {"head", "body"} /\ bcf_loaded
       \/ bcf_pc = "clone"
    /\ LET cond == create_bogus_cmp(bcf_x, bcf_y, BcfWidth)
           next == bcf_successor(bcf_pc, cond)
       IN  /\ bcf_pc' = next
           /\ bcf_trace' = Append(bcf_trace,
                                  [from |-> bcf_pc, to |-> next, cond |-> cond,
                                   y_lt_10 |-> ToSigned(bcf_y, BcfWidth) < 10])
    /\ bcf_loaded' = FALSE
    /\ bcf_x' = 0
    /\ bcf_y' = 0
    /\ Frame("bcf")

SpecBcf ==
    BcfInit /\ [][BcfLoad \/ BcfExecTerminator]_vars

\* The blocks control has entered, in order.
BcfPath == <<"head">> \o [i \in 1 .. Len(bcf_trace) |-> bcf_trace[i].to]

\* C7: both opaque predicates are true for all values of x and y, so control
\* goes head -> body -> tail and never enters the cloned block.
BcfPathUnchanged ==
    /\ bcf_pc # "clone"
    /\ BcfPath \in {<<"head">>, <<"head", "body">>, <<"head", "body", "tail">>}
    /\ \A i \in 1 .. Len(bcf_trace) : bcf_trace[i].cond

\* The tail is reached although y >= 10 at both predicates, so that each
\* rested on x * (x + 1) being even.
BcfWitness ==
    /\ bcf_pc = "tail"
    /\ Len(bcf_trace) = 2
    /\ \A i \in 1 .. 2 : ~bcf_trace[i].y_lt_10

(***************************************************************************)
(* IndirectBranchPass (passes/indirect_branch.py)                          *)
(***************************************************************************)
\* _compute_obfuscated_index: index ^ rand, then xor with rand again written
\* as (~a & b) | (a & ~b).
compute_obfuscated_index(index, rand64, w) ==
    LET rand_const == TypeConstant(rand64, w)
        xor1       == IrXor(index, rand_const, w)
        not_xor1   == IrNot(xor1, w)
        not_rand   == IrNot(rand_const, w)
        left       == IrAnd(not_xor1, rand_const, w)
        right      == IrAnd(xor1, not_rand, w)
    IN  IrOr(left, right, w)

\* The jump table the pass stores for a conditional branch with successors
\* <<true_bb, false_bb>>: slot 0 holds false_bb, slot 1 holds true_bb.
\* (Sequences are 1-based: slot i is element i + 1.)
cond_jump_table(successors) ==
    LET true_bb  == successors[1]
        false_bb == successors[2]
    IN  <<false_bb, true_bb>>

\* The original branch: a conditional one with successors <<T, F>> and either
\* value of the condition, or an unconditional one.
IbrInit ==
    /\ ibr_pc = "branch"
    /\ ibr_kind \in {"cond", "uncond"}
    /\ ibr_cond \in (IF ibr_kind = "cond" THEN BOOLEAN ELSE {FALSE})
    /\ ibr_rand = 0
    /\ ibr_table = <<>>
    /\ ibr_index = 0
    /\ ibr_target = "none"
    /\ OthersIdle("ibr")

\* run_on_function for one branch: the table is filled and the random
\* constant of the index obfuscation is drawn (get_uint64(), one bit wider
\* here than the index type).
IbrRunOnFunction ==
    /\ ibr_pc = "branch"
    /\ \E rand64 \in IntVals(IbrWidth + 1) :
          ibr_rand' = (IF ibr_kind = "cond" THEN rand64 ELSE 0)
    /\ ibr_table' = (IF ibr_kind = "cond" THEN cond_jump_table(<<"T", "F">>)
                                        ELSE <<"T">>)
    /\ ibr_pc' = "rewritten"
    /\ UNCHANGED <<ibr_kind, ibr_cond, ibr_index, ibr_target>>
    /\ Frame("ibr")

\* The emitted code runs: index = zext(not cond), obfuscated, then the target
\* is loaded from the table and the indirect branch is taken.
IbrExecute ==
    /\ ibr_pc = "rewritten"
    /\ LET inverted == IF ibr_cond THEN 0 ELSE 1
           index    == IF ibr_kind = "cond"
                       THEN compute_obfuscated_index(inverted, ibr_rand, IbrWidth)
                       ELSE 0
       IN  /\ ibr_index' = index
           /\ ibr_target' = ibr_table[index + 1]
    /\ ibr_pc' = "taken"
    /\ UNCHANGED <<ibr_kind, ibr_cond, ibr_rand, ibr_table>>
    /\ Frame("ibr")

SpecIbr ==
    IbrInit /\ [][IbrRunOnFunction \/ IbrExecute]_vars

\* C3: for both values of the condition and every random mask the obfuscated
\* index equals !cond, and the indirect branch goes to the original true
\* successor when the condition is true and to the false successor otherwise.
IbrPreservesTarget ==
    (ibr_pc = "taken" /\ ibr_kind = "cond") =>
        /\ ibr_index = (IF ibr_cond THEN 0 ELSE 1)
        /\ ibr_target = (IF ibr_cond THEN "T" ELSE "F")

(***************************************************************************)
(* MBA coefficient generation (utils/mba.py) and MBAObfuscationPass        *)
(* (passes/mba_obfuscation.py)                                             *)
(***************************************************************************)
\* The 15 truth tables f(0,0), f(0,1), f(1,0), f(1,1); table i of the
\* program is element i + 1.
TRUTH_TABLES == <<
    <<0, 0, 0, 1>>, <<0, 0, 1, 0>>, <<0, 0, 1, 1>>, <<0, 1, 0, 0>>,
    <<0, 1, 0, 1>>, <<0, 1, 1, 0>>, <<0, 1, 1, 1>>, <<1, 0, 0, 0>>,
    <<1, 0, 0, 1>>, <<1, 0, 1, 0>>, <<1, 0, 1, 1>>, <<1, 1, 0, 0>>,
    <<1, 1, 0, 1>>, <<1, 1, 1, 0>>, <<1, 1, 1, 1>> >>

NumTables == Len(TRUTH_TABLES)

\* The solver's equations after one more expression: equ[j], the sum of
\* X_i * TRUTH_TABLES[exprs[i]][j] over the expressions chosen so far, for
\* each of the 4 input combinations j.
mba_add_expr(equ, e, X) == [j \in 1 .. 4 |-> equ[j] + X * TRUTH_TABLES[e + 1][j]]

\* A faulty absorption: a subtraction absorbed as if it were an addition.
substitute_binary_adjust_sub_as_add(coeffs, opcode) ==
    CASE opcode = "Add" -> [coeffs EXCEPT ![3] = @ + 1, ![5] = @ + 1]
      [] opcode = "Sub" -> [coeffs EXCEPT ![3] = @ + 1, ![5] = @ + 1]
      [] opcode = "Xor" -> [coeffs EXCEPT ![6] = @ + 1]
      [] opcode = "And" -> [coeffs EXCEPT ![1] = @ + 1]
      [] opcode = "Or"  -> [coeffs EXCEPT ![7] = @ + 1]

\* _substitute_binary, the adjustment of the coefficients for the operation:
\* add is x + y, sub is x - y, xor, and, or are tables 5, 0 and 6.
substitute_binary_adjust(coeffs, opcode) ==
    CASE opcode = "Add" -> [coeffs EXCEPT ![3] = @ + 1, ![5] = @ + 1]
      [] opcode = "Sub" -> [coeffs EXCEPT ![3] = @ + 1, ![5] = @ - 1]
      [] opcode = "Xor" -> [coeffs EXCEPT ![6] = @ + 1]
      [] opcode = "And" -> [coeffs EXCEPT ![1] = @ + 1]
      [] opcode = "Or"  -> [coeffs EXCEPT ![7] = @ + 1]

\* _build_bool_expr for truth table idx (0-based, as in the program).
build_bool_expr(idx, x, y, w) ==
    CASE idx = 0  -> IrAnd(x, y, w)
      [] idx = 1  -> IrAnd(x, IrNot(y, w), w)
      [] idx = 2  -> x
      [] idx = 3  -> IrAnd(IrNot(x, w), y, w)
      [] idx = 4  -> y
      [] idx = 5  -> IrXor(x, y, w)
      [] idx = 6  -> IrOr(x, y, w)
      [] idx = 7  -> IrNot(IrOr(x, y, w), w)
      [] idx = 8  -> IrNot(IrXor(x, y, w), w)
      [] idx = 9  -> IrNot(y, w)
      [] idx = 10 -> IrOr(x, IrNot(y, w), w)
      [] idx = 11 -> IrNot(x, w)
      [] idx = 12 -> IrOr(IrNot(x, w), y, w)
      [] idx = 13 -> IrNot(IrAnd(x, y, w), w)
      [] idx = 14 -> TypeConstant(-1, w)
      [] OTHER    -> 0

\* _insert_linear_mba, tables i .. 14: result = result + coeffs[i] * expr_i,
\* the tables with coefficient 0 skipped.
RECURSIVE insert_linear_mba(_, _, _, _, _, _)
insert_linear_mba(coeffs, x, y, w, i, result) ==
    IF i >= NumTables THEN result
    ELSE IF coeffs[i + 1] = 0
         THEN insert_linear_mba(coeffs, x, y, w, i + 1, result)
         ELSE LET bool_expr   == build_bool_expr(i, x, y, w)
                  coeff_const == TypeConstant(coeffs[i + 1], w)
                  term        == IrMul(coeff_const, bool_expr, w)
              IN  insert_linear_mba(coeffs, x, y, w, i + 1, IrAdd(result, term, w))

\* extended_gcd: <<g, x, y>> with a * x + b * y = g.
RECURSIVE extended_gcd(_, _)
extended_gcd(a, b) ==
    IF b = 0 THEN <<a, 1, 0>>
    ELSE LET r == extended_gcd(b, a % b)
         IN  <<r[1], r[3], r[2] - (a \div b) * r[3]>>

modular_inverse(a, modulus) == extended_gcd(a % modulus, modulus)[2] % modulus

\* generate_univariate_poly from the two random draws: <<a0, a1, b0, b1>>.
generate_univariate_poly(bit_width, r0, r1) ==
    LET mask_mod == Pow2(bit_width)
        a0 == r0 % mask_mod
        a1 == IrOr(r1 % Pow2(bit_width + 1), 1, bit_width + 1) % mask_mod
        b1 == modular_inverse(a1, mask_mod) % mask_mod
        b0 == (-(b1 * a0)) % mask_mod
    IN  <<a0, a1, b0, b1>>

\* _insert_polynomial_mba: a1 * (b1 * expr + b0) + a0.
insert_polynomial_mba(linear_expr, poly, w) ==
    LET a0 == poly[1]
        a1 == poly[2]
        b0 == poly[3]
        b1 == poly[4]
    IN  IrAdd(IrMul(a1, IrAdd(IrMul(b1, linear_expr, w), b0, w), w), a0, w)

\* The pass is constructed; no coefficient has been generated.
MbaInit ==
    /\ mba_pc = "solving"
    /\ mba_n = 0
    /\ mba_nonzero = FALSE
    /\ mba_equ = <<0, 0, 0, 0>>
    /\ mba_coeffs = [k \in 1 .. NumTables |-> 0]
    /\ mba_opcode = "none" /\ mba_width = 0 /\ mba_wide = FALSE /\ mba_a = 0
    /\ mba_b = 0 /\ mba_terms = 0 /\ mba_linear = 0 /\ mba_poly = <<>>
    /\ mba_result = 0
    /\ OthersIdle("mba")

\* generate_linear_mba, one expression at a time: the index of expression
\* mba_n is drawn (rng.get_range(15)) and the solver's value X of its
\* coefficient is accumulated into coeffs.  With the last expression the
\* solver's constraints are imposed: the four equations are 0, some X is not
\* 0, every X is within the bound.
MbaGenerateLinear ==
    /\ mba_pc = "solving"
    /\ mba_n < MbaNumExprs
    /\ \E e \in 0 .. (NumTables - 1), X \in (-MbaCoeffBound) .. MbaCoeffBound :
          LET coeffs == [mba_coeffs EXCEPT ![e + 1] = @ + X]
              equ    == mba_add_expr(mba_equ, e, X)
          IN  /\ mba_coeffs' = coeffs
              /\ mba_equ' = equ
              /\ mba_nonzero' = (mba_nonzero \/ X # 0)
              /\ mba_n' = mba_n + 1
              /\ IF mba_n + 1 = MbaNumExprs
                 THEN /\ \A j \in 1 .. 4 : equ[j] = 0
                      /\ (mba_nonzero \/ X # 0)
                      /\ mba_pc' = "generated"
                 ELSE mba_pc' = mba_pc
    /\ UNCHANGED <<mba_opcode, mba_width, mba_wide, mba_a, mba_b, mba_terms,
                   mba_linear, mba_poly, mba_result>>
    /\ Frame("mba")

\* _substitute_binary up to the linear MBA, for an instruction of any of the
\* five opcodes and any type, executed on any operands a and b: the
\* coefficients are adjusted and the sum is emitted.  The type is its scaled
\* width and whether the real width is above 32 bits (wide); for a wide type
\* the sum replaces the instruction, otherwise the polynomial follows.
MbaSubstituteBinary ==
    /\ mba_pc = "generated"
    /\ \E opcode \in {"Add", "Sub", "And", "Or", "Xor"}, w \in 1 .. MbaMaxWidth, wide \in BOOLEAN :
       \E a \in IntVals(w), b \in IntVals(w) :
          LET coeffs   == substitute_binary_adjust(mba_coeffs, opcode)
              mba_expr == insert_linear_mba(coeffs, a, b, w, 0, 0)
          IN  /\ mba_opcode' = opcode
              /\ mba_width' = w
              /\ mba_wide' = wide
              /\ mba_a' = a
              /\ mba_b' = b
              /\ mba_terms' = Cardinality({k \in 1 .. NumTables : coeffs[k] # 0})
              /\ mba_linear' = mba_expr
              /\ mba_result' = (IF wide THEN mba_expr ELSE 0)
              /\ mba_pc' = (IF wide THEN "emitted" ELSE "linear")
    /\ mba_coeffs' = <<>>
    /\ UNCHANGED <<mba_n, mba_nonzero, mba_equ, mba_poly>>
    /\ Frame("mba")

\* _substitute_binary, the polynomial wrapper: two random draws give the
\* polynomials, and a1 * (b1 * expr + b0) + a0 replaces the instruction.
MbaInsertPolynomial ==
    /\ mba_pc = "linear"
    /\ \E r0 \in IntVals(mba_width + 1), r1 \in IntVals(mba_width + 1) :
          LET poly == generate_univariate_poly(mba_width, r0, r1)
          IN  /\ mba_poly' = poly
              /\ mba_result' = insert_polynomial_mba(mba_linear, poly, mba_width)
    /\ mba_pc' = "emitted"
    /\ UNCHANGED <<mba_n, mba_nonzero, mba_equ, mba_coeffs, mba_opcode, mba_width,
                   mba_wide, mba_a, mba_b, mba_terms, mba_linear>>
    /\ Frame("mba")

SpecMba ==
    MbaInit /\ [][MbaGenerateLinear \/ MbaSubstituteBinary
                  \/ MbaInsertPolynomial]_vars

\* C4: the expression that replaces a binary instruction (the linear MBA sum
\* with the operation absorbed, wrapped in the polynomial unless the type is
\* wide) has the value of the instruction modulo 2^width.
MbaPreservesValue ==
    /\ mba_pc \in {"linear", "emitted"} =>
          mba_linear = OrigBinOp(mba_opcode, mba_a, mba_b, mba_width)
    /\ mba_pc = "emitted" =>
          mba_result = OrigBinOp(mba_opcode, mba_a, mba_b, mba_width)

\* A subtraction that wraps around was replaced by a sum of at least three
\* terms inside a polynomial whose multiplier is not 1.
MbaWitness ==
    /\ mba_pc = "emitted"
    /\ mba_opcode = "Sub"
    /\ mba_a < mba_b
    /\ mba_terms >= 3
    /\ ~mba_wide
    /\ mba_poly[2] > 1
    /\ mba_poly[1] > 0

\* C17: every coefficient vector that generate_linear_mba returns has at
\* least one nonzero coefficient.
MbaCoefficientsNonzero ==
    mba_pc = "generated" => \E k \in 1 .. NumTables : mba_coeffs[k] # 0

(***************************************************************************)
(* generate_linear_mba with its module-level cache (utils/mba.py), called  *)
(* by successive runs of MBAObfuscationPass in one process.                *)
(*                                                                         *)
(* Lists are objects: mc_heap maps an object to its contents (<<>> when    *)
(* the object does not exist), the cache holds objects and mc_ret is the   *)
(* object the caller holds.  Run 0 stands for whatever ran earlier in the  *)
(* process; runs 1 and 2 are two runs of the pass on the same module       *)
(* (make_add_function) with CryptoRandom(seed) for the same seed, whose    *)
(* draws are mc_stream.                                                    *)
(***************************************************************************)
\* list(x) of an object unchanged: the object itself is handed on.
list_alias(heap, src) == <<heap, src>>

\* list(x): a new object with the contents of x.  <<heap, object>>.
list(heap, src) ==
    LET id == CHOOSE i \in DOMAIN heap :
                 /\ heap[i] = <<>>
                 /\ \A k \in DOMAIN heap : heap[k] = <<>> => i <= k
    IN  <<[heap EXCEPT ![id] = heap[src]], id>>

\* CryptoRandom(seed): the draws d are the next Len(d) values of the
\* generator.  In runs 1 and 2 they are the values of the seed's stream
\* after the mc_pos values the run has consumed; the generator of run 0 has
\* another seed.
RngDraw(d) ==
    /\ \/ mc_run = 0
       \/ \A i \in DOMAIN d :
             mc_pos + i <= Len(mc_stream) => d[i] = mc_stream[mc_pos + i]
    /\ mc_stream' =
          (IF mc_run = 0 THEN mc_stream
           ELSE mc_stream \o SubSeq(d, Len(mc_stream) - mc_pos + 1, Len(d)))
    /\ mc_pos' = mc_pos + Len(d)

\* The module is imported: the cache is empty.
McInit ==
    /\ mc_pc = "call"
    /\ mc_run = 0
    /\ mc_n = 0
    /\ mc_heap = [i \in 1 .. (CacheMax + 2) |-> <<>>]
    /\ mc_cache = <<>>
    /\ mc_ret = 0
    /\ mc_hit = FALSE
    /\ mc_stream = <<>>
    /\ mc_pos = 0
    /\ mc_out = <<<<>>, <<>>, <<>>>>
    /\ OthersIdle("mc")

\* generate_linear_mba, one iteration of its loop.  With a full cache the
\* first cached list is copied and the cache rotated, and the random source
\* is not touched.  Otherwise the indices and the solver's seed are drawn;
\* the solver's model is a function of the constraints and of its seed (the
\* first assignment, counted from the seed, that satisfies them); without a
\* model the loop draws again; with one the coefficients are accumulated,
\* a copy is appended to the cache and the list is returned.
McGenerate ==
    /\ mc_pc = "call"
    /\ IF Len(mc_cache) >= CacheMax
       THEN LET c == list(mc_heap, mc_cache[1])
            IN  /\ mc_heap' = c[1]
                /\ mc_ret' = c[2]
                /\ mc_cache' = Tail(mc_cache) \o <<mc_cache[1]>>
                /\ mc_hit' = TRUE
                /\ mc_pc' = "returned"
                /\ UNCHANGED <<mc_stream, mc_pos>>
       ELSE \E d \in [1 .. (MbaNumExprs + 1) -> 0 .. (McTables - 1)] :
               LET exprs    == SubSeq(d, 1, MbaNumExprs)
                   seed_val == d[MbaNumExprs + 1]
                   base     == 2 * MbaCoeffBound + 1
                   count    == base ^ MbaNumExprs
                   XOf(n)   == [i \in 1 .. MbaNumExprs |->
                                   ((n \div (base ^ (i - 1))) % base)
                                       - MbaCoeffBound]
                   equ(X)   ==
                       LET f[k \in 0 .. MbaNumExprs] ==
                               IF k = 0 THEN <<0, 0, 0, 0>>
                               ELSE mba_add_expr(f[k - 1], exprs[k], X[k])
                       IN  f[MbaNumExprs]
                   sat      == {n \in 0 .. (count - 1) :
                                   /\ equ(XOf(n)) = <<0, 0, 0, 0>>
                                   /\ \E i \in 1 .. MbaNumExprs : XOf(n)[i] # 0}
                   from     == {n \in sat : n >= seed_val % count}
                   first(S) == CHOOSE n \in S : \A m \in S : n <= m
                   model    == XOf(first(IF from # {} THEN from ELSE sat))
                   coeffs   ==
                       LET f[k \in 0 .. MbaNumExprs] ==
                               IF k = 0 THEN [t \in 1 .. NumTables |-> 0]
                               ELSE [f[k - 1] EXCEPT ![exprs[k] + 1] = @ + model[k]]
                       IN  f[MbaNumExprs]
                   obj      == CHOOSE i \in DOMAIN mc_heap :
                                   /\ mc_heap[i] = <<>>
                                   /\ \A k \in 1 .. (i - 1) : mc_heap[k] # <<>>
                   copied   == list([mc_heap EXCEPT ![obj] = coeffs], obj)
               IN  /\ RngDraw(d)
                   /\ IF sat = {}
                      THEN UNCHANGED <<mc_heap, mc_ret, mc_cache, mc_hit, mc_pc>>
                      ELSE /\ mc_heap' = copied[1]
                           /\ mc_ret' = obj
                           /\ mc_cache' = Append(mc_cache, copied[2])
                           /\ mc_hit' = FALSE
                           /\ mc_pc' = "returned"
    /\ UNCHANGED <<mc_run, mc_n, mc_out>>
    /\ Frame("mc")

\* MBAObfuscationPass._substitute_binary after generate_linear_mba returned,
\* for the add of make_add_function: the caller adjusts the list it was
\* given in place, the polynomial is drawn and the rewritten instruction is
\* the run's output.  The caller's list is dropped afterwards.  Run 0 is of
\* at most CacheMax instructions, runs 1 and 2 of one.
McSubstituteBinary ==
    /\ mc_pc = "returned"
    /\ \E d \in [1 .. 2 -> 0 .. (McTables - 1)] :
          LET adjusted == substitute_binary_adjust(mc_heap[mc_ret], "Add")
              written  == [mc_heap EXCEPT ![mc_ret] = adjusted]
              poly     == generate_univariate_poly(MbaMaxWidth, d[1], d[2])
          IN  /\ RngDraw(d)
              /\ mc_heap' = [i \in DOMAIN written |->
                                IF \E k \in DOMAIN mc_cache : mc_cache[k] = i
                                THEN written[i] ELSE <<>>]
              /\ mc_out' = [mc_out EXCEPT ![mc_run + 1] =
                                          Append(@, <<adjusted, poly>>)]
    /\ mc_ret' = 0
    /\ mc_n' = mc_n + 1
    /\ mc_pc' = (IF mc_n + 1 >= (IF mc_run = 0 THEN CacheMax ELSE 1)
                 THEN "done" ELSE "call")
    /\ UNCHANGED <<mc_run, mc_cache, mc_hit>>
    /\ Frame("mc")

\* The next run starts: MBAObfuscationPass(rng=CryptoRandom(seed)) on a new
\* copy of the module.  Whatever ran earlier may stop after any number of
\* instructions.
McNextRun ==
    /\ mc_run < 2
    /\ \/ mc_pc = "done"
       \/ mc_run = 0 /\ mc_pc = "call"
    /\ mc_run' = mc_run + 1
    /\ mc_n' = 0
    /\ mc_pos' = 0
    /\ mc_pc' = "call"
    /\ UNCHANGED <<mc_heap, mc_cache, mc_ret, mc_hit, mc_stream, mc_out>>
    /\ Frame("mc")

SpecMbaCache ==
    McInit /\ [][McGenerate \/ McSubstituteBinary \/ McNextRun]_vars

\* C11: two runs of the pass on the same module with the same seed produce
\* the same output, whatever the cache holds when each run starts.
McRunsIdentical ==
    (mc_run = 2 /\ mc_pc = "done") => mc_out[2] = mc_out[3]

\* C18: the vector generate_linear_mba returns, solved or served from the
\* cache, satisfies sum_i c_i * TRUTH_TABLES[i][j] = 0 for each row j.
McConstraintsHold ==
    mc_pc = "returned" =>
        LET c == mc_heap[mc_ret]
            sum[k \in 0 .. NumTables] ==
                IF k = 0 THEN <<0, 0, 0, 0>>
                ELSE mba_add_expr(sum[k - 1], k - 1, c[k])
        IN  sum[NumTables] = <<0, 0, 0, 0>>

\* A vector was served from the cache in a later run, after the callers of
\* the earlier run had modified the lists they were given.
McWitness ==
    /\ mc_pc = "returned"
    /\ mc_hit
    /\ mc_run >= 1
    /\ \E k \in 1 .. NumTables : mc_heap[mc_ret][k] # 0

(***************************************************************************)
(* IndirectCallPass (passes/indirect_call.py)                              *)
(***************************************************************************)
\* Functions of the module that have a body; "printf" is only declared.
IcDefined == {"helper", "compute"}

\* The mask of a call site: get_uint32() & 0xFFFFFFFF, and 1 when that is 0.
ic_mask_of(r32) == IF r32 = 0 THEN 1 ELSE r32

\* builder.call(func_ty, func_ptr, args, name): a call instruction with the
\* callee and the arguments given; a new call has the C calling convention.
builder_call(func_ptr, args) == [callee |-> func_ptr, args |-> args, cc |-> "ccc"]

\* A call site `call <cc> @callee(args)` in a function with a body; the
\* callee is at any address; the users of its result refer to it.  The
\* site carries the default C convention or one of two conventions that
\* CustomCCPass assigns.
IcInit ==
    /\ ic_pc = "call"
    /\ ic_callee \in IcDefined \cup {"printf"}
    /\ ic_addr \in {1, Pow2(IcPtrWidth) - 1}
    /\ ic_args \in UNION {[1 .. n -> {"%x", "%y"}] : n \in 0 .. IcMaxArgs}
    /\ ic_cc \in {"ccc", "fastcc", "coldcc"}
    /\ ic_mask = 0
    /\ ic_gv = "none"
    /\ ic_new_call = <<>>
    /\ ic_uses = "call"
    /\ ic_target = 0
    /\ OthersIdle("ic")

\* run_on_module for the call site: it is rewritten when the callee has a
\* body.  A global holds the callee, the operands before the last are the
\* arguments, the new call goes through the pointer computed from the global
\* and the mask, the uses of the old call are redirected and it is erased.
IcRunOnModule ==
    /\ ic_pc = "call"
    /\ ic_callee \in IcDefined
    /\ \E r32 \in IntVals(IcPtrWidth \div 2) :
          ic_mask' = ic_mask_of(r32)
    /\ ic_gv' = ic_callee
    /\ ic_new_call' = builder_call("indcall.ptr", ic_args)
    /\ ic_uses' = "indcall.ret"
    /\ ic_pc' = "rewritten"
    /\ UNCHANGED <<ic_callee, ic_addr, ic_args, ic_cc, ic_target>>
    /\ Frame("ic")

\* The emitted sequence runs: load of the global, ptrtoint, add of the mask,
\* sub of the mask, inttoptr, call.
IcExecute ==
    /\ ic_pc = "rewritten"
    /\ LET int_val  == ic_addr
           added    == IrAdd(int_val, TypeConstant(ic_mask, IcPtrWidth), IcPtrWidth)
           unmasked == IrSub(added, TypeConstant(ic_mask, IcPtrWidth), IcPtrWidth)
       IN  ic_target' = unmasked
    /\ ic_pc' = "called"
    /\ UNCHANGED <<ic_callee, ic_addr, ic_args, ic_cc, ic_mask, ic_gv, ic_new_call,
                   ic_uses>>
    /\ Frame("ic")

SpecIc ==
    IcInit /\ [][IcRunOnModule \/ IcExecute]_vars

\* C8: a rewritten call calls the same function (the pointer after the add
\* and the sub of the mask is the callee's address), with the same arguments
\* in the same order and the same calling convention, and the users of the
\* old call's result use the new call's result.
IcPreservesCall ==
    ic_pc = "called" =>
        /\ ic_gv = ic_callee
        /\ ic_target = ic_addr
        /\ ic_new_call.args = ic_args
        /\ ic_new_call.cc = ic_cc
        /\ ic_uses = "indcall.ret"

(***************************************************************************)
(* CustomCCPass (passes/custom_cc.py)                                      *)
(***************************************************************************)
\* A module as in tests/test_custom_cc.py: helper and helper2 are internal
\* functions with bodies, main_func has a body and external linkage, ext is
\* a declaration.  Every function has the C calling convention and every
\* direct call site (a call or an invoke instruction whose callee operand is
\* the function) has the convention of its callee.
CcInit ==
    /\ cc_pc = "input"
    /\ cc_funcs = [f \in {"helper", "helper2", "main_func", "ext"} |->
                     [is_declaration |-> f = "ext",
                      linkage |-> IF f \in {"helper", "helper2"}
                                  THEN "Internal" ELSE "External",
                      calling_conv |-> "ccc"]]
    /\ cc_sites \in [1 .. CcNumSites ->
                       [called : {"helper", "helper2", "main_func", "ext"},
                        opcode : {"Call", "Invoke"},
                        instruction_call_conv : {"ccc"}]]
    /\ OthersIdle("cc")

\* run_on_module: every internal or private function with a body is given
\* a convention drawn from _CC_POOL, and so is every instruction of opcode
\* Call whose last operand has the function's name.
CcRunOnModule ==
    /\ cc_pc = "input"
    /\ LET internal_funcs ==
               {f \in DOMAIN cc_funcs :
                   /\ ~cc_funcs[f].is_declaration
                   /\ cc_funcs[f].linkage \in {"Internal", "Private"}}
       IN  \E cc \in [internal_funcs ->
                        {"fastcc", "coldcc", "preserve_mostcc",
                         "preserve_allcc", "x86_regcallcc", "x86_64_sysvcc",
                         "win64cc"}] :
              /\ cc_funcs' = [f \in DOMAIN cc_funcs |->
                                IF f \in internal_funcs
                                THEN [cc_funcs[f] EXCEPT !.calling_conv = cc[f]]
                                ELSE cc_funcs[f]]
              /\ cc_sites' = [i \in DOMAIN cc_sites |->
                                IF /\ cc_sites[i].opcode = "Call"
                                   /\ cc_sites[i].called \in internal_funcs
                                THEN [cc_sites[i] EXCEPT
                                         !.instruction_call_conv =
                                             cc[cc_sites[i].called]]
                                ELSE cc_sites[i]]
    /\ cc_pc' = "done"
    /\ Frame("cc")

SpecCc ==
    CcInit /\ [][CcRunOnModule]_vars

\* C16: after the pass every direct call site has the calling convention of
\* the function it calls.
CcCallSitesMatch ==
    cc_pc = "done" =>
        \A i \in DOMAIN cc_sites :
            cc_sites[i].instruction_call_conv
                = cc_funcs[cc_sites[i].called].calling_conv

(***************************************************************************)
(* PassPipeline.run (passes/__init__.py) with function passes and          *)
(* VirtualizationPass.run_on_module (passes/virtualization.py)             *)
(***************************************************************************)
\* The functions of the module: three with a body and one declaration.
PipeDefined == {"check_serial", "derive_license_tier", "main"}
PipeDeclared == {"printf"}

\* selected_functions: None, or a set of names.
NoSelection == [is_none |-> TRUE, names |-> {}]
Selection(names) == [is_none |-> FALSE, names |-> names]

\* A faulty filter: the selection is ignored.
function_pass_targets_unfiltered(functions, selected) ==
    {func \in functions : func \notin PipeDeclared}

\* The functions a function pass is invoked on: the declarations are skipped,
\* and with a selection so are the functions whose name is not in it.
function_pass_targets(functions, selected) ==
    {func \in functions :
        /\ func \notin PipeDeclared
        /\ ~(selected # NoSelection /\ func \notin selected.names)}

\* VirtualizationPass.run_on_module, the list `eligible`.
virt_eligible(eligible, selected_functions) ==
    {f \in eligible : selected_functions = NoSelection \/ f \in selected_functions.names}

\* A module, a pipeline and a selection.  Eligibility (_is_eligible) and
\* whether compile_function accepts the function are properties of each
\* function with a body.
PipeInit ==
    /\ pipe_pc = "running"
    /\ pipe_passes \in UNION {[1 .. n -> {"FunctionPass", "VirtualizationPass"}] : n \in 1 .. PipeMaxPasses}
    /\ pipe_selected \in {NoSelection} \cup
                         {Selection(names) : names \in SUBSET (PipeDefined \cup PipeDeclared)}
    /\ pipe_eligible \in SUBSET PipeDefined
    /\ pipe_compilable \in SUBSET pipe_eligible
    /\ pipe_functions = PipeDefined \cup PipeDeclared
    /\ pipe_i = 1
    /\ pipe_calls = <<>>
    /\ pipe_virtualized = {}
    /\ pipe_obfuscated = {}
    /\ pipe_attrs = {}
    /\ pipe_changed = FALSE
    /\ OthersIdle("pipe")

\* One iteration of the loop over the passes, a module pass:
\* p.run_on_module(mod, ctx) is called without a selection.  The pass builds
\* the interpreter when some function is eligible and replaces the body of
\* each eligible function that compiles.
PipeRunModulePass ==
    /\ pipe_pc = "running"
    /\ pipe_i <= Len(pipe_passes)
    /\ pipe_passes[pipe_i] = "VirtualizationPass"
    /\ LET selected_functions == NoSelection
           eligible == virt_eligible(pipe_eligible, selected_functions)
           compiled == eligible \cap pipe_compilable
       IN  /\ pipe_functions' = pipe_functions \cup
                                 (IF eligible = {} THEN {} ELSE {"__vm_interpret"})
           /\ pipe_virtualized' = pipe_virtualized \cup compiled
           /\ pipe_changed' = (pipe_changed \/ compiled # {})
           /\ pipe_calls' = Append(pipe_calls,
                                   [kind |-> "VirtualizationPass",
                                    selected |-> selected_functions,
                                    funcs |-> compiled])
    /\ pipe_i' = pipe_i + 1
    /\ UNCHANGED <<pipe_pc, pipe_passes, pipe_selected, pipe_eligible,
                   pipe_compilable, pipe_obfuscated, pipe_attrs>>
    /\ Frame("pipe")

\* One iteration of the loop over the passes, a function pass: it is run on
\* each function that is not skipped; those for which it returns True (it
\* changed them) are recorded as obfuscated.
PipeRunFunctionPass ==
    /\ pipe_pc = "running"
    /\ pipe_i <= Len(pipe_passes)
    /\ pipe_passes[pipe_i] = "FunctionPass"
    /\ LET targets == function_pass_targets(pipe_functions, pipe_selected)
       IN  \E transformed \in SUBSET targets :
              /\ pipe_obfuscated' = pipe_obfuscated \cup transformed
              /\ pipe_changed' = (pipe_changed \/ transformed # {})
              /\ pipe_calls' = Append(pipe_calls,
                                      [kind |-> "FunctionPass",
                                       selected |-> pipe_selected,
                                       funcs |-> targets])
    /\ pipe_i' = pipe_i + 1
    /\ UNCHANGED <<pipe_pc, pipe_passes, pipe_selected, pipe_eligible,
                   pipe_compilable, pipe_functions, pipe_virtualized, pipe_attrs>>
    /\ Frame("pipe")

\* After the last pass the obfuscated functions get optnone and noinline and
\* run returns.
PipeStamp ==
    /\ pipe_pc = "running"
    /\ pipe_i > Len(pipe_passes)
    /\ pipe_attrs' = {func \in pipe_functions : func \in pipe_obfuscated}
    /\ pipe_pc' = "returned"
    /\ UNCHANGED <<pipe_passes, pipe_selected, pipe_eligible, pipe_compilable,
                   pipe_functions, pipe_i, pipe_calls, pipe_virtualized,
                   pipe_obfuscated, pipe_changed>>
    /\ Frame("pipe")

SpecPipe ==
    PipeInit /\ [][PipeRunModulePass \/ PipeRunFunctionPass \/ PipeStamp]_vars

\* The functions with a body whose name is selected (all of them without a
\* selection), among those the module holds.
PipeSelectedBodies ==
    {func \in pipe_functions \ PipeDeclared :
        pipe_selected = NoSelection \/ func \in pipe_selected.names}

\* C9: run hands its selection to every module pass, so that the
\* virtualization pass virtualizes only eligible functions whose name is
\* selected.
PipeModulePassesGetSelection ==
    /\ \A k \in 1 .. Len(pipe_calls) :
          pipe_calls[k].kind = "VirtualizationPass" =>
              pipe_calls[k].selected = pipe_selected
    /\ pipe_selected # NoSelection => pipe_virtualized \subseteq pipe_selected.names
    /\ pipe_virtualized \subseteq pipe_eligible

\* C10: every function pass is invoked on exactly the functions with a body
\* whose name is selected (all when nothing is selected); the other
\* functions, and all functions when the selection is empty, are neither
\* changed nor stamped by the function passes.
PipeFunctionPassesFiltered ==
    /\ \A k \in 1 .. Len(pipe_calls) :
          pipe_calls[k].kind = "FunctionPass" =>
              /\ pipe_calls[k].funcs \cap PipeDeclared = {}
              /\ pipe_selected = NoSelection =>
                    PipeDefined \subseteq pipe_calls[k].funcs
              /\ pipe_selected # NoSelection =>
                    pipe_calls[k].funcs = PipeDefined \cap pipe_selected.names
    /\ pipe_obfuscated \subseteq PipeSelectedBodies
    /\ pipe_attrs \subseteq PipeSelectedBodies
    /\ pipe_selected = Selection({}) => (pipe_obfuscated = {} /\ pipe_attrs = {})

\* A pipeline with two function passes has returned; one selected function
\* was changed and stamped while another function with a body and a selected
\* declaration were not visited.
PipeWitness ==
    /\ pipe_pc = "returned"
    /\ pipe_selected = Selection({"check_serial", "printf"})
    /\ Len(pipe_calls) = 2
    /\ \A k \in 1 .. 2 : pipe_calls[k].kind = "FunctionPass"
    /\ pipe_attrs = {"check_serial"}

(***************************************************************************)
(* GlobalEncryptionPass (passes/global_encryption.py) and                  *)
(* StringEncryptionPass (passes/string_encryption.py)                      *)
(***************************************************************************)
KEY_LEN == 4

GeKeyVals == 0 .. (Pow2(KEY_LEN * ByteBits) - 1)

\* int.to_bytes(n, 'little'): the n low bytes of val, lowest first.
int_to_bytes(val, n) ==
    [i \in 1 .. n |-> (val \div Pow2(ByteBits * (i - 1))) % Pow2(ByteBits)]

\* to_bytes raises OverflowError for a value that needs more than n bytes.
to_bytes_overflows(val, n) == val >= Pow2(ByteBits * n)

\* int.from_bytes(bytes, 'little').
RECURSIVE int_from_bytes(_)
int_from_bytes(bytes) ==
    IF bytes = <<>> THEN 0
    ELSE Head(bytes) + Pow2(ByteBits) * int_from_bytes(Tail(bytes))

\* _type_byte_size: int_width // 8, times the length for an array.
type_byte_size(ty) ==
    IF ty.kind = "Integer" THEN ty.int_width \div ByteBits
    ELSE (ty.int_width \div ByteBits) * ty.array_length

\* _encrypt_bytes: the value XORed byte by byte with the key, cyclically.
encrypt_bytes(orig_val, byte_size, key, byte_offset) ==
    LET key_bytes == int_to_bytes(key % Pow2(KEY_LEN * ByteBits), KEY_LEN)
        val_bytes == int_to_bytes(orig_val, byte_size)
    IN  int_from_bytes([i \in 1 .. byte_size |->
            IrXor(val_bytes[i], key_bytes[((byte_offset + i - 1) % KEY_LEN) + 1],
                  ByteBits)])

\* Bytes an integer of the width occupies when stored.
store_size(int_width) == (int_width + ByteBits - 1) \div ByteBits

\* Bytes between two elements of an array of integers of the width: the
\* store size rounded up to a power of two.
alloc_size(int_width) ==
    CHOOSE p \in {Pow2(k) : k \in 0 .. 4} :
        /\ p >= store_size(int_width)
        /\ \A k \in 0 .. 4 : Pow2(k) >= store_size(int_width) => p <= Pow2(k)

\* The memory of a variable of type ty holding the elements: each element
\* little-endian in its slot.
memory_of(ty, elems) ==
    LET slot == alloc_size(ty.int_width)
    IN  [i \in 1 .. (Len(elems) * slot) |->
            int_to_bytes(elems[((i - 1) \div slot) + 1], slot)[((i - 1) % slot) + 1]]

\* load of element j (from 1) of a variable of type ty from its memory.
load_element(mem, ty, j) ==
    LET slot == alloc_size(ty.int_width)
        first == (j - 1) * slot
    IN  int_from_bytes(SubSeq(mem, first + 1, first + store_size(ty.int_width)))
            % Pow2(ty.int_width)

\* The decrypt helper: for i < len, data[i] ^= key[i % keyLen].
decrypt_function(data, key, len, keyLen) ==
    [i \in 1 .. Len(data) |->
        IF i <= len
        THEN IrXor(key[((i - 1) % keyLen) + 1], data[i], ByteBits)
        ELSE data[i]]

\* The local copy of a function: an alloca of the type whose first
\* byte_size bytes are copied from the global; the other bytes keep whatever
\* the stack held.  Then the helper runs over byte_size bytes with the key
\* as stored (an i32, little-endian).
local_copy(mem, stack, byte_size, key) ==
    decrypt_function([i \in 1 .. Len(mem) |-> IF i <= byte_size THEN mem[i] ELSE stack[i]],
                     int_to_bytes(key, KEY_LEN), byte_size, KEY_LEN)

\* Element widths: below a byte, a byte, between one and two bytes, two
\* bytes, three bytes.
GeWidths == {1, ByteBits, ByteBits + 1, 2 * ByteBits, 3 * ByteBits}

GeTypes ==
    {[kind |-> "Integer", int_width |-> w, array_length |-> 1] : w \in GeWidths}
    \cup {[kind |-> "Array", int_width |-> w, array_length |-> n] :
             w \in GeWidths, n \in 1 .. GeMaxLen}

\* A constant global with an initializer, internal linkage and at least one
\* reading instruction.  Its elements are zero, one or all ones.  A reading
\* instruction is in function "f" or "g" and has the global itself as an
\* operand or reaches it through a constant expression (a constant
\* getelementptr or cast).
GeInit ==
    /\ ge_pc = "plain"
    /\ ge_pass = "none"
    /\ ge_type \in GeTypes
    /\ ge_plain \in [1 .. ge_type.array_length ->
                        {0, 1, Pow2(ge_type.int_width) - 1}]
    /\ ge_uses \in (SUBSET {<<"f", "direct">>, <<"g", "direct">>,
                           <<"g", "constexpr">>}) \ {{}}
    /\ ge_key = 0
    /\ ge_mem = memory_of(ge_type, ge_plain)
    /\ ge_copy = <<>>
    /\ OthersIdle("ge")

\* The global is left as it is.
GeSkip(pass) ==
    /\ ge_pc' = "skipped"
    /\ ge_pass' = pass
    /\ UNCHANGED <<ge_type, ge_plain, ge_uses, ge_key, ge_mem, ge_copy>>

\* GlobalEncryptionPass.run_on_module for the global.  It is found through
\* the instructions that have it as an operand; a size of zero or a value
\* that does not fit its byte size leaves it alone.  Otherwise the
\* initializer is encrypted element by element and each function that uses
\* it gets a decrypted local copy, which replaces the operand.
GeRunOnModule ==
    /\ ge_pc = "plain"
    /\ LET direct    == {u \in ge_uses : u[2] = "direct"}
           byte_size == type_byte_size(ge_type)
           elem_size == ge_type.int_width \div ByteBits
       IN  IF \/ direct = {}
              \/ byte_size = 0
              \/ \E j \in 1 .. Len(ge_plain) : to_bytes_overflows(ge_plain[j], elem_size)
           THEN GeSkip("global_encryption")
           ELSE \E key \in GeKeyVals :
                \E stack \in [(byte_size + 1) .. Len(ge_mem) -> IntVals(ByteBits)] :
                   LET enc == [j \in 1 .. Len(ge_plain) |->
                                  encrypt_bytes(ge_plain[j], elem_size, key,
                                                (j - 1) * elem_size)]
                       mem == memory_of(ge_type, enc)
                   IN  /\ ge_key' = key
                       /\ ge_mem' = mem
                       /\ ge_copy' = local_copy(mem, stack, byte_size, key)
                       /\ ge_pc' = "encrypted"
                       /\ ge_pass' = "global_encryption"
                       /\ UNCHANGED <<ge_type, ge_plain, ge_uses>>
    /\ Frame("ge")

\* StringEncryptionPass.run_on_module for the global: only an array of i8
\* with a use by name; the bytes are XORed with the key bytes cyclically.
SeRunOnModule ==
    /\ ge_pc = "plain"
    /\ LET direct     == {u \in ge_uses : u[2] = "direct"}
           byte_count == ge_type.array_length
       IN  IF \/ ge_type.kind # "Array"
              \/ ge_type.int_width # ByteBits
              \/ direct = {}
           THEN GeSkip("string_encryption")
           ELSE \E key_val \in GeKeyVals :
                   LET key_bytes == int_to_bytes(key_val, KEY_LEN)
                       enc == [j \in 1 .. byte_count |->
                                  IrXor(ge_plain[j] % Pow2(ByteBits),
                                        key_bytes[((j - 1) % KEY_LEN) + 1], ByteBits)]
                       mem == memory_of(ge_type, enc)
                   IN  /\ ge_key' = key_val
                       /\ ge_mem' = mem
                       /\ ge_copy' = local_copy(mem, <<>>, byte_count, key_val)
                       /\ ge_pc' = "encrypted"
                       /\ ge_pass' = "string_encryption"
                       /\ UNCHANGED <<ge_type, ge_plain, ge_uses>>
    /\ Frame("ge")

SpecGe ==
    GeInit /\ [][GeRunOnModule \/ SeRunOnModule]_vars

\* What the instruction at a use site reads as element j after the pass:
\* from the local copy when its operand was replaced, from the global
\* otherwise.
GeReads(u, j) ==
    IF u[2] = "direct" THEN load_element(ge_copy, ge_type, j)
    ELSE load_element(ge_mem, ge_type, j)

\* C6: for an encrypted global, every instruction that read it reads the
\* plaintext after the pass; byte i of the stored initializer is the plain
\* byte XOR key byte (i mod 4), and the decrypted copy has the plain bytes.
GeReadsPlaintext ==
    ge_pc = "encrypted" =>
        LET plain_mem == memory_of(ge_type, ge_plain)
            key_bytes == int_to_bytes(ge_key, KEY_LEN)
        IN  /\ \A u \in ge_uses : \A j \in 1 .. Len(ge_plain) :
                  GeReads(u, j) = ge_plain[j]
            /\ \A i \in 1 .. Len(plain_mem) :
                  ge_mem[i] = IrXor(plain_mem[i], key_bytes[((i - 1) % KEY_LEN) + 1],
                                    ByteBits)
            /\ ge_copy = plain_mem

\* C15: after either encryption pass has encrypted a global, whatever key
\* the generator produced, the bytes stored for the global in the module
\* are not the original plaintext bytes.
GePlaintextGone ==
    ge_pc = "encrypted" => ge_mem # memory_of(ge_type, ge_plain)

(***************************************************************************)
(* FlatteningPass with encrypted state (passes/flattening.py)              *)
(***************************************************************************)
\* original_blocks, by index (from 1); block 0 is the entry block.
FlatBlocks == 1 .. FlatNumBlocks

\* A terminator: ret, br to one block, or br on a condition to two blocks
\* (successor 1 is taken when the condition is true; the condition takes
\* both values, so the two blocks are listed in one order only).
FlatBrTerms ==
    {[op |-> "br", succs |-> <<t>>] : t \in FlatBlocks}
    \cup {[op |-> "br", succs |-> <<p[1], p[2]>>] :
             p \in {q \in FlatBlocks \X FlatBlocks : q[1] < q[2]}}

\* _unique_state: distinct state words, none below the floor.
FlatStateAssignments ==
    {[i \in FlatBlocks |-> Pow2(FlatStateBits - 1) + (i - 1)],
     [i \in FlatBlocks |-> Pow2(FlatStateBits) - i]}

\* The successors of block b that are among the flattened blocks.
flat_succs(term, b) == {term[b].succs[k] : k \in 1 .. Len(term[b].succs)}

\* _compute_dominates, the predecessor map: over `blocks` only.
compute_preds(term, blocks) ==
    [h \in blocks |-> {b \in blocks : h \in flat_succs(term, b)}]

\* The intersection of the dominator sets of the predecessors.
dom_intersection(dom, pred_list, blocks) ==
    {d \in blocks : \A p \in pred_list : d \in dom[p]}

\* One pass of the loop `for b in blocks` over dom, from block h on; each
\* block sees the sets already updated in this pass.
RECURSIVE dom_sweep(_, _, _, _, _)
dom_sweep(dom, preds, blocks, entry, h) ==
    IF h \notin blocks THEN dom
    ELSE IF h = entry THEN dom_sweep(dom, preds, blocks, entry, h + 1)
    ELSE LET new_dom == IF preds[h] = {} THEN {h}
                        ELSE dom_intersection(dom, preds[h], blocks) \cup {h}
         IN  dom_sweep([dom EXCEPT ![h] = new_dom], preds, blocks, entry, h + 1)

\* `while changed`: sweeps until nothing changes.
RECURSIVE dom_fixpoint(_, _, _, _)
dom_fixpoint(dom, preds, blocks, entry) ==
    LET next == dom_sweep(dom, preds, blocks, entry, 1)
    IN  IF next = dom THEN dom ELSE dom_fixpoint(next, preds, blocks, entry)

\* _compute_dominates(blocks, entry): block -> the blocks it dominates, by
\* the iterative dataflow over the given blocks.
compute_dominates(term, blocks, entry) ==
    LET preds == compute_preds(term, blocks)
        init  == [h \in blocks |-> IF h = entry THEN {entry} ELSE blocks]
        dom   == dom_fixpoint(init, preds, blocks, entry)
    IN  [d \in blocks |-> {h \in blocks : d \in dom[h] /\ d # h}]

\* XOR of the keys of the blocks in a set.
RECURSIVE xor_keys(_, _)
xor_keys(key_list, js) ==
    IF js = {} THEN 0
    ELSE LET j == CHOOSE x \in js : TRUE
         IN  IrXor(key_list[j], xor_keys(key_list, js \ {j}), FlatStateBits)

\* key_map[idx]: XOR of key_list[j] over the blocks j that dominate idx.
compute_key_map(dominates, key_list) ==
    [idx \in FlatBlocks |->
        xor_keys(key_list, {j \in FlatBlocks : j # idx /\ idx \in dominates[j]})]

\* The dispatch block: the switch on the state word gives the block whose
\* case matches, or 0 for the default block (which branches back to the
\* dispatch block, for ever).
flat_dispatch(block_state, sw_val) ==
    IF \E b \in FlatBlocks : block_state[b] = sw_val
    THEN CHOOSE b \in FlatBlocks : block_state[b] = sw_val
    ELSE 0

\* Where control is after the dispatch.
flat_pc_of(next) == IF next = 0 THEN "default" ELSE "block"

\* No rewritten terminator of a flattened block has run yet.
FlatNoLast == [block |-> 0, key |-> 0, target |-> 0, stored |-> 0, to |-> 0]

\* A function of 1 + FlatNumBlocks blocks: flat_term[0] is the terminator of
\* the entry block, which branches to blocks after it.
FlatInit ==
    /\ flat_pc = "pass"
    /\ flat_cur = 0
    /\ flat_term \in [{0} \cup FlatBlocks ->
                        {[op |-> "ret", succs |-> <<>>]} \cup FlatBrTerms]
    /\ flat_term[0] \in FlatBrTerms
    /\ flat_block_state = <<>>
    /\ flat_dominates = <<>>
    /\ flat_key_list = <<>>
    /\ flat_key_map = <<>>
    /\ flat_state_var = 0
    /\ flat_keys = <<>>
    /\ flat_visited = <<>>
    /\ flat_last = FlatNoLast
    /\ OthersIdle("flat")

\* run_on_function: state words, dominance over original_blocks with
\* original_blocks[0] as root, keys, key_map; the emitted entry code sets
\* the state word to the first block's and zeroes the key and visited arrays.
FlatRunOnFunction ==
    /\ flat_pc = "pass"
    /\ \E block_state \in FlatStateAssignments :
       \E key_list \in [FlatBlocks -> IntVals(FlatKeyBits)] :
          LET all_flattened == FlatBlocks
              dominates == compute_dominates(flat_term, all_flattened, 1)
          IN  /\ flat_block_state' = block_state
              /\ flat_key_list' = key_list
              /\ flat_dominates' = dominates
              /\ flat_key_map' = compute_key_map(dominates, key_list)
              /\ flat_state_var' = block_state[1]
    /\ flat_keys' = [i \in FlatBlocks |-> 0]
    /\ flat_visited' = [i \in FlatBlocks |-> 0]
    /\ flat_pc' = "entry"
    /\ UNCHANGED <<flat_cur, flat_term, flat_last>>
    /\ Frame("flat")

\* The entry block runs: its rewritten branch stores the plaintext state of
\* its target and goes to the dispatcher.
FlatExecEntry ==
    /\ flat_pc = "entry"
    /\ \E condition \in BOOLEAN :
          LET succs  == flat_term[0].succs
              target == IF Len(succs) = 1 \/ condition THEN succs[1] ELSE succs[2]
              stored == flat_block_state[target]
              next   == flat_dispatch(flat_block_state, stored)
          IN  /\ flat_state_var' = stored
              /\ flat_cur' = next
              /\ flat_pc' = flat_pc_of(next)
    /\ UNCHANGED <<flat_term, flat_block_state, flat_dominates, flat_key_list,
                   flat_key_map, flat_keys, flat_visited, flat_last>>
    /\ Frame("flat")

\* A flattened block runs: on its first visit __cff_update_key XORs its key
\* into the keys of the blocks it dominates; it is marked visited; a ret
\* returns; a rewritten branch stores keys[idx] XOR fix and goes to the
\* dispatcher, where fix = state(successor) XOR key_map[idx].
FlatExecBlock ==
    /\ flat_pc = "block"
    /\ LET idx  == flat_cur
           keys == IF flat_visited[idx] = 0
                   THEN [j \in FlatBlocks |->
                            IF j \in flat_dominates[idx]
                            THEN IrXor(flat_keys[j], flat_key_list[idx], FlatStateBits)
                            ELSE flat_keys[j]]
                   ELSE flat_keys
           succs == flat_term[idx].succs
       IN  /\ flat_keys' = keys
           /\ flat_visited' = [flat_visited EXCEPT ![idx] = 1]
           /\ IF flat_term[idx].op = "ret"
              THEN /\ flat_pc' = "ret"
                   /\ UNCHANGED <<flat_cur, flat_state_var, flat_last>>
              ELSE \E condition \in BOOLEAN :
                      LET target == IF Len(succs) = 1 \/ condition
                                    THEN succs[1] ELSE succs[2]
                          fix    == IrXor(flat_block_state[target],
                                          flat_key_map[idx], FlatStateBits)
                          stored == IrXor(keys[idx], fix, FlatStateBits)
                          next   == flat_dispatch(flat_block_state, stored)
                      IN  /\ flat_state_var' = stored
                          /\ flat_cur' = next
                          /\ flat_pc' = flat_pc_of(next)
                          /\ flat_last' = [block |-> idx, key |-> keys[idx],
                                           target |-> target, stored |-> stored,
                                           to |-> next]
    /\ UNCHANGED <<flat_term, flat_block_state, flat_dominates, flat_key_list,
                   flat_key_map>>
    /\ Frame("flat")

SpecFlat ==
    FlatInit /\ [][FlatRunOnFunction \/ FlatExecEntry \/ FlatExecBlock]_vars

\* C2: whenever a flattened block has executed its rewritten terminator, its
\* runtime key was key_map of the block, the state word it stored is the
\* plaintext state of the successor the branch takes, and the dispatcher
\* went to that successor; the default case is never taken.
FlatKeysMatch ==
    /\ flat_pc # "default"
    /\ flat_last # FlatNoLast =>
          /\ flat_last.key = flat_key_map[flat_last.block]
          /\ flat_last.stored = flat_block_state[flat_last.target]
          /\ flat_last.to = flat_last.target

(***************************************************************************)
(* VirtualizationPass.run_on_module (passes/virtualization.py) as called   *)
(* by PassPipeline.run, with the outcome of compile_function               *)
(* (riscybusiness_vm/compiler.py) for each function.                       *)
(***************************************************************************)
\* The functions of the module, in module order.  Of each: whether
\* _is_eligible accepts it; whether it has a PHI node or a value used
\* outside its block (what demote_phi_to_stack and demote_regs_to_stack
\* rewrite); and the error compile_function raises for it, if any, all of
\* them raised after the demotion: an instruction _compile_instruction does
\* not know, or eight parameters, which leave no argument register for the
\* table of globals.  _is_eligible repeats the checks of _validate_function,
\* so an eligible function passes _validate_function.  `calls` names the
\* external function of each call instruction of the function, in order.
VirtInit ==
    /\ virt_pc = "first_pass"
    /\ virt_funcs \in [{"f", "g", "h"} ->
                          [eligible : BOOLEAN,
                           demotable : BOOLEAN,
                           fault : {"none", "unsupported_opcode", "too_many_params"},
                           calls : {<<>>, <<"puts">>, <<"strlen">>}]]
    /\ virt_ir = [n \in {"f", "g", "h"} |-> "input"]
    /\ virt_i = 1
    /\ virt_compiled = {}
    /\ virt_errors = {}
    /\ virt_interp = FALSE
    /\ virt_bytecode = [n \in {"f", "g", "h"} |-> <<>>]
    /\ virt_hosts = <<>>
    /\ virt_tables = [n \in {"f", "g", "h"} |-> <<>>]
    /\ OthersIdle("virt")

\* The function at position virt_i: dropped by the filter of `eligible`, or
\* one iteration of the first pass.  compile_function demotes the function
\* in place and then compiles it; a ValueError is caught and the loop goes
\* on with the next function.  The interpreter is built before the first
\* pass when some function is eligible.  The bytecode of a function is
\* kept as the host index each of its calls loads into a0: the position of
\* the callee among the callees of this function, in first-seen order
\* (host_index_map of compile_function).  run_on_module appends the names
\* it has not seen to all_host_names.
VirtCompile ==
    /\ virt_pc = "first_pass"
    /\ virt_i <= 3
    /\ LET func == <<"f", "g", "h">>[virt_i]
           attr == virt_funcs[func]
       IN  IF ~attr.eligible
           THEN UNCHANGED <<virt_ir, virt_compiled, virt_errors, virt_interp,
                            virt_bytecode, virt_hosts>>
           ELSE /\ virt_interp' = TRUE
                /\ virt_ir' = IF attr.demotable
                              THEN [virt_ir EXCEPT ![func] = "demoted"]
                              ELSE virt_ir
                /\ IF attr.fault # "none"
                   THEN /\ virt_errors' = virt_errors \cup {<<func, attr.fault>>}
                        /\ UNCHANGED <<virt_compiled, virt_bytecode, virt_hosts>>
                   ELSE /\ virt_compiled' = virt_compiled \cup {func}
                        /\ virt_bytecode' =
                               [virt_bytecode EXCEPT
                                   ![func] = [k \in DOMAIN attr.calls |-> k - 1]]
                        /\ virt_hosts' =
                               virt_hosts \o
                               SelectSeq(attr.calls,
                                         LAMBDA name :
                                             \A j \in DOMAIN virt_hosts :
                                                 virt_hosts[j] # name)
                        /\ UNCHANGED virt_errors
    /\ virt_i' = virt_i + 1
    /\ UNCHANGED <<virt_pc, virt_funcs, virt_tables>>
    /\ Frame("virt")

\* After the first pass: with nothing compiled run_on_module returns False;
\* otherwise the second pass replaces the body of every compiled function
\* by the stub and run_on_module returns True.  Every stub passes the
\* table of all_host_names to the interpreter, and the bytecode is embedded
\* as compiled: _remap_host_indices returns the bytecode it is given.
\* PassPipeline.run calls run_on_module without a handler and returns
\* after it.
VirtReplace ==
    /\ virt_pc = "first_pass"
    /\ virt_i > 3
    /\ virt_ir' = [n \in {"f", "g", "h"} |->
                      IF n \in virt_compiled THEN "stub" ELSE virt_ir[n]]
    /\ virt_tables' = [n \in {"f", "g", "h"} |->
                          IF n \in virt_compiled THEN virt_hosts ELSE <<>>]
    /\ virt_pc' = IF virt_compiled = {} THEN "returned_false" ELSE "returned_true"
    /\ UNCHANGED <<virt_funcs, virt_i, virt_compiled, virt_errors, virt_interp,
                   virt_bytecode, virt_hosts>>
    /\ Frame("virt")

SpecVirt ==
    VirtInit /\ [][VirtCompile \/ VirtReplace]_vars

\* C12: when the pass has returned, every function it did not virtualize
\* has the IR it had before the pass.
VirtUntransformedIdentical ==
    virt_pc \in {"returned_false", "returned_true"} =>
        \A n \in {"f", "g", "h"} : n \notin virt_compiled => virt_ir[n] = "input"

\* C13: the run does not return normally when compile_function raised for
\* a limit of the encoding (here: too many parameters for the argument
\* registers).
VirtLimitSurfaced ==
    virt_pc \in {"returned_false", "returned_true"} =>
        \A e \in virt_errors : e[2] # "too_many_params"

\* C27: in every virtualized function, the index a call loads into a0
\* selects, in the host table its stub passes to the interpreter, the
\* function the call instruction called.
VirtHostIndexSelectsCallee ==
    virt_pc = "returned_true" =>
        \A n \in virt_compiled :
            \A k \in DOMAIN virt_bytecode[n] :
                virt_tables[n][virt_bytecode[n][k] + 1] = virt_funcs[n].calls[k]

(***************************************************************************)
(* Bytecode ISA codec (riscybusiness_vm/isa.py) and the branch fixups of   *)
(* compile_function (riscybusiness_vm/compiler.py, pass 2).                *)
(*                                                                         *)
(* An instruction word is kept as its 32 bits, bit 0 the lowest.           *)
(***************************************************************************)
\* The mutation of _sign_extend that forgets the sign bit.
sign_extend_unsigned(value, bits) == value % Pow2(bits)

\* _sign_extend: (value & mask) - ((value & sign_bit) << 1).
sign_extend(value, bits) ==
    (value % Pow2(bits))
        - 2 * Pow2(bits - 1) * ((value \div Pow2(bits - 1)) % 2)

\* encode_r_type ... encode_j_type: every field is masked to its width,
\* shifted to its place and ORed into the word.  a is the record of the
\* arguments; a format ignores the arguments it does not take.
isa_encode(fmt, a) ==
    LET Bits(v, lo, n) == (v % Pow2(lo + n)) \div Pow2(lo)
        op7    == <<((a.opcode % 32) * 4) + 3, 0, 7>>
        rd     == <<a.rd, 7, 5>>
        funct3 == <<a.funct3, 12, 3>>
        rs1    == <<a.rs1, 15, 5>>
        rs2    == <<a.rs2, 20, 5>>
        imm_field ==
            Bits(a.imm, 12, 8) + Bits(a.imm, 11, 1) * Pow2(8)
                + Bits(a.imm, 1, 10) * Pow2(9) + Bits(a.imm, 20, 1) * Pow2(19)
        fields ==
            CASE fmt = "R" -> {op7, rd, funct3, rs1, rs2, <<a.funct7, 25, 7>>}
              [] fmt = "I" -> {op7, rd, funct3, rs1, <<a.imm, 20, 12>>}
              [] fmt = "S" -> {op7, <<Bits(a.imm, 0, 5), 7, 5>>, funct3, rs1, rs2,
                               <<Bits(a.imm, 5, 7), 25, 7>>}
              [] fmt = "B" -> {op7, <<Bits(a.imm, 11, 1), 7, 1>>,
                               <<Bits(a.imm, 1, 4), 8, 4>>, funct3, rs1, rs2,
                               <<Bits(a.imm, 5, 6), 25, 6>>,
                               <<Bits(a.imm, 12, 1), 31, 1>>}
              [] fmt = "U" -> {op7, rd, <<a.imm, 12, 20>>}
              [] fmt = "J" -> {op7, rd, <<imm_field, 12, 20>>}
    IN  [i \in 0 .. 31 |->
            IF \E f \in fields : /\ f[2] <= i
                                 /\ i < f[2] + f[3]
                                 /\ Bits(f[1], i - f[2], 1) = 1
            THEN 1 ELSE 0]

\* decode_opcode ... decode_funct7 and the immediate decoder of the format:
\* decode_i_imm, decode_s_imm, decode_b_imm, decode_j_imm sign-extend the
\* bits they gather; decode_u_imm is inst & 0xFFFFF000, kept as the bits of
\* that 32-bit value.
isa_decode(fmt, inst) ==
    LET Field(lo, n) ==
            LET acc[k \in 0 .. n] ==
                    IF k = 0 THEN 0
                    ELSE acc[k - 1] + inst[lo + k - 1] * Pow2(k - 1)
            IN  acc[n]
        imm_field  == Field(12, 20)
        bits_19_12 == imm_field % Pow2(8)
        bit_11     == (imm_field \div Pow2(8)) % 2
        bits_10_1  == (imm_field \div Pow2(9)) % Pow2(10)
        bit_20     == (imm_field \div Pow2(19)) % 2
    IN  [opcode |-> Field(2, 5),
         rd     |-> Field(7, 5),
         funct3 |-> Field(12, 3),
         rs1    |-> Field(15, 5),
         rs2    |-> Field(20, 5),
         funct7 |-> Field(25, 7),
         imm    |->
            CASE fmt = "R" -> 0
              [] fmt = "I" -> sign_extend(Field(20, 12), 12)
              [] fmt = "S" -> sign_extend(Field(25, 7) * Pow2(5) + Field(7, 5), 12)
              [] fmt = "B" -> sign_extend(Field(31, 1) * Pow2(12)
                                              + Field(7, 1) * Pow2(11)
                                              + Field(25, 6) * Pow2(5)
                                              + Field(8, 4) * 2, 13)
              [] fmt = "U" -> [i \in 0 .. 31 |-> IF i >= 12 THEN inst[i] ELSE 0]
              [] fmt = "J" -> sign_extend(bit_20 * Pow2(20) + bits_19_12 * Pow2(12)
                                              + bit_11 * Pow2(11) + bits_10_1 * 2,
                                          21)]

\* The instructions that are encoded: each format with every opcode of the
\* Opcode enum, every register number in each register field, funct3 and
\* funct7 patterns, and the smallest, the largest and mixed immediates of
\* the field (B and J: even offsets; U: the 20 bits of the field).
IsaInit ==
    /\ isa_pc = "input"
    /\ \E fmt \in {"R", "I", "S", "B", "U", "J"},
          opcode \in {0, 3, 4, 5, 6, 8, 12, 13, 14, 24, 25, 27, 28},
          r \in 0 .. 31,
          funct \in {<<0, 0>>, <<2, 32>>, <<5, 85>>, <<7, 127>>},
          k \in 1 .. 7 :
          LET imms ==
                  CASE fmt = "R" -> <<0, 0, 0, 0, 0, 0, 0>>
                    [] fmt \in {"I", "S"} -> <<0, 1, -1, 2047, -2048, 1365, -8>>
                    [] fmt = "B" -> <<0, 2, -2, 4094, -4096, 8, -12>>
                    [] fmt = "U" -> <<0, 1, 74565, 524287, 524288, 1048575, 699050>>
                    [] fmt = "J" -> <<0, 2, -2, 1048574, -1048576, 100, -20>>
          IN  isa_args = [fmt |-> fmt, opcode |-> opcode, rd |-> r,
                          rs1 |-> (r + 11) % 32, rs2 |-> 31 - r,
                          funct3 |-> funct[1], funct7 |-> funct[2],
                          imm |-> imms[k]]
    /\ isa_word = <<>>
    /\ isa_rel = 0
    /\ OthersIdle("isa")

\* A call of the encoder of the format.
IsaEncode ==
    /\ isa_pc = "input"
    /\ isa_word' = isa_encode(isa_args.fmt, isa_args)
    /\ isa_pc' = "encoded"
    /\ UNCHANGED <<isa_args, isa_rel>>
    /\ Frame("isa")

\* compile_function, pass 2, for one fixup: pass 1 emitted the branch (a
\* B-type BRANCH or JAL x0) with offset 0 at byte_offset; the target block
\* starts at target_offset.  The word is encoded again with the relative
\* offset; a B-type keeps the funct3, rs1 and rs2 read from the old word.
IsaFixup ==
    /\ isa_pc = "encoded"
    /\ isa_args.imm = 0
    /\ \/ isa_args.fmt = "B" /\ isa_args.opcode = 24
       \/ isa_args.fmt = "J" /\ isa_args.opcode = 27 /\ isa_args.rd = 0
    /\ \E byte_offset, target_offset \in {0, 8, 4096, 4104, 1048576, 1048584} :
          LET rel_offset == target_offset - byte_offset
              old_insn   == isa_decode("B", isa_word)
          IN  /\ isa_rel' = rel_offset
              /\ isa_word' =
                    IF isa_args.fmt = "J"
                    THEN isa_encode("J", [opcode |-> 27, rd |-> 0,
                                          imm |-> rel_offset])
                    ELSE isa_encode("B", [opcode |-> 24,
                                          funct3 |-> old_insn.funct3,
                                          rs1 |-> old_insn.rs1,
                                          rs2 |-> old_insn.rs2,
                                          imm |-> rel_offset])
    /\ isa_pc' = "fixed"
    /\ UNCHANGED isa_args
    /\ Frame("isa")

SpecIsa ==
    IsaInit /\ [][IsaEncode \/ IsaFixup]_vars

\* What every format gives back: the low two bits are 0b11 and the opcode,
\* the registers and the funct fields of the format are the encoded ones.
IsaFieldsRoundTrip ==
    LET a == isa_args
        d == isa_decode(a.fmt, isa_word)
    IN  /\ isa_word[0] = 1 /\ isa_word[1] = 1
        /\ d.opcode = a.opcode
        /\ a.fmt \in {"R", "I", "U", "J"} => d.rd = a.rd
        /\ a.fmt \in {"R", "I", "S", "B"} =>
              d.funct3 = a.funct3 /\ d.rs1 = a.rs1
        /\ a.fmt \in {"R", "S", "B"} => d.rs2 = a.rs2
        /\ a.fmt = "R" => d.funct7 = a.funct7
        /\ a.fmt \in {"I", "S", "B", "J"} => d.imm = a.imm

\* C19 as stated: every format, the U format included, decodes to the
\* fields and to the immediate that were encoded.
IsaRoundTrip ==
    isa_pc = "encoded" =>
        /\ IsaFieldsRoundTrip
        /\ isa_args.fmt = "U" =>
              isa_decode("U", isa_word).imm
                  = [i \in 0 .. 31 |->
                        IF i <= 20 THEN (isa_args.imm \div Pow2(i)) % 2 ELSE 0]

\* C19, amended: the R, I, S, B and J formats decode to the fields and the
\* sign-extended immediate that were encoded, with low bits 0b11; the U
\* format decodes to the opcode, rd and the 20 bits of its immediate
\* shifted left by 12, as an unsigned 32-bit value.
IsaRoundTripUpper ==
    isa_pc = "encoded" =>
        /\ IsaFieldsRoundTrip
        /\ isa_args.fmt = "U" =>
              isa_decode("U", isa_word).imm
                  = [i \in 0 .. 31 |->
                        IF i >= 12 THEN (isa_args.imm \div Pow2(i - 12)) % 2
                        ELSE 0]

IsaWitness ==
    /\ isa_pc = "encoded"
    /\ isa_args.fmt = "B"
    /\ isa_args.imm = -4096
    /\ isa_args.rs1 = 31
    /\ isa_word[31] = 1
    /\ isa_decode("B", isa_word).imm = -4096

\* C14: an instruction that compile_function emits for a branch carries the
\* offset of its target: the offset is not truncated or wrapped by the
\* field.
IsaOffsetsFit ==
    isa_pc = "fixed" =>
        isa_decode(isa_args.fmt, isa_word).imm = isa_rel

(***************************************************************************)
(* VirtualizationPass: compile_function translates a function to bytecode  *)
(* of the RISC-V style machine, _replace_function_body replaces the body   *)
(* by a stub that marshals the arguments and calls __vm_interpret.         *)
(*                                                                         *)
(* An instruction word is kept as the record of its fields; an immediate   *)
(* is the field the encoder stores (masked to the width of the field) and  *)
(* the interpreter sign-extends it when it decodes.                        *)
(***************************************************************************)
NUM_REGS == 32
VM_STACK_SIZE == 4096
SYSCALL_EXIT == 10000
SYSCALL_HOST_CALL == 20000

\* RegIndex.  get_or_assign hands out T0 and then T1, and recycles them at
\* every block; assign_arg gives A0 and A1 to the two parameters.
ZERO == 0
SP == 2
T0 == 5
T1 == 6
A0 == 10
A1 == 11
A7 == 17

\* trunc / zext / sext of the IR on unsigned representatives.
IrTrunc(v, to) == v % Pow2(to)

IrZExt(v, from, to) == (v % Pow2(from)) % Pow2(to)

IrSExt(v, from, to) ==
    LET x == v % Pow2(from)
    IN  IF x >= Pow2(from - 1) THEN x + Pow2(to) - Pow2(from) ELSE x

\* The binary operations of the IR at width w (the op64 sub-handlers build
\* the same operations at the width of a register).
ir_binop(op, a, c, w) ==
    CASE op = "Add" -> IrAdd(a, c, w)
      [] op = "Sub" -> IrSub(a, c, w)
      [] op = "Mul" -> IrMul(a, c, w)
      [] op = "And" -> IrAnd(a, c, w)
      [] op = "Or"  -> IrOr(a, c, w)
      [] op = "Xor" -> IrXor(a, c, w)

\* The integer comparisons of the IR at width w.
ir_icmp(pred, a, c, w) ==
    CASE pred = "EQ"  -> a = c
      [] pred = "NE"  -> a # c
      [] pred = "ULT" -> a < c
      [] pred = "UGE" -> a >= c
      [] pred = "UGT" -> a > c
      [] pred = "ULE" -> a <= c
      [] pred = "SLT" -> ToSigned(a, w) < ToSigned(c, w)
      [] pred = "SGE" -> ToSigned(a, w) >= ToSigned(c, w)
      [] pred = "SGT" -> ToSigned(a, w) > ToSigned(c, w)
      [] pred = "SLE" -> ToSigned(a, w) <= ToSigned(c, w)

\* The functions that are virtualized: "add" returns a op b; "branch_func"
\* is the diamond  entry: br (icmp pred a, b), if_true, if_false;
\* if_true: a + b; if_false: a - b; merge: phi; ret.  "test_caller" calls
\* an external function on one or two of its own parameters (args[k] is the
\* number of the parameter passed as argument k) and returns the result r
\* of the call, or  r op a  when op is an operation.
VmFuncs ==
    {[name |-> "add", op |-> op, pred |-> "none", args |-> <<>>] :
        op \in {"Add", "Sub", "Mul", "And", "Or", "Xor"}}
    \cup
    {[name |-> "branch_func", op |-> "none", pred |-> pred, args |-> <<>>] :
        pred \in {"EQ", "NE", "SLT", "SGE", "ULT", "UGE", "SGT", "UGT", "SLE", "ULE"}}
    \cup
    {[name |-> "test_caller", op |-> op, pred |-> "none", args |-> args] :
        op \in {"none", "Add"},
        args \in {<<1>>, <<2>>, <<1, 1>>, <<1, 2>>, <<2, 1>>, <<2, 2>>}}

\* The external function that test_caller calls: it returns its argument,
\* or the first minus the second when it has two.
host_function(args, w) ==
    IF Len(args) = 1 THEN args[1] ELSE IrSub(args[1], args[2], w)

\* The value the function returns before it is virtualized.
original_result(f, a, c) ==
    IF f.name = "add"
    THEN ir_binop(f.op, a, c, VmIntBits)
    ELSE IF f.name = "test_caller"
    THEN LET r == host_function([k \in DOMAIN f.args |-> <<a, c>>[f.args[k]]],
                                VmIntBits)
         IN  IF f.op = "none" THEN r ELSE ir_binop(f.op, r, a, VmIntBits)
    ELSE IF ir_icmp(f.pred, a, c, VmIntBits)
         THEN ir_binop("Add", a, c, VmIntBits)
         ELSE ir_binop("Sub", a, c, VmIntBits)

\* isa.py, encode_r_type ... encode_j_type: the fields of the word; the
\* immediate is masked to the `bits` bits of its field (0 for R-type).
encode_type(op, funct, rd, rs1, rs2, imm, bits) ==
    [op |-> op, funct |-> funct, rd |-> rd, rs1 |-> rs1, rs2 |-> rs2,
     imm |-> IF bits = 0 THEN 0 ELSE imm % Pow2(bits)]

\* --- compiler.py ---
\* Loading an immediate: ADDI rd, x0, imm when it fits 12 signed bits, else
\* LUI upper20 and ADDI lower12.  The values the model loads are
\* non-negative and below 2^31, where the masks to 64 and to 32 bits keep
\* the value; (val32 + 0x1000) >> 12 is computed as (val32 >> 12) + 1.
encode_load_imm(rd, value) ==
    IF -2048 <= value /\ value <= 2047
    THEN <<encode_type("IMM64", "ADDI", rd, ZERO, 0, value, 12)>>
    ELSE LET val32   == value
             lower12 == val32 % Pow2(12)
             upper20 == IF lower12 >= 2048
                        THEN (val32 \div Pow2(12) + 1) % Pow2(20)
                        ELSE (val32 \div Pow2(12)) % Pow2(20)
         IN  <<encode_type("LUI", "LUI", rd, 0, 0, upper20, 20)>>
                 \o (IF lower12 # 0
                     THEN <<encode_type("IMM64", "ADDI", rd, rd, 0, lower12, 12)>>
                     ELSE <<>>)

\* The address of an alloca: ADDI reg, SP, total_alloca_size + offset.
prepare_alloca(reg, frame_size, alloca_off) ==
    <<encode_type("IMM64", "ADDI", reg, SP, 0, frame_size + alloca_off, 12)>>

\* A binary instruction: the OP64 operation _BINOP_MAP gives its opcode.
compile_binop(op, rd, rs1, rs2) ==
    LET funct == CASE op = "Add" -> "ADD"
                   [] op = "Sub" -> "SUB"
                   [] op = "Mul" -> "MUL"
                   [] op = "And" -> "AND"
                   [] op = "Or"  -> "OR"
                   [] op = "Xor" -> "XOR"
    IN  <<encode_type("OP64", funct, rd, rs1, rs2, 0, 0)>>

\* ret: move the value to a0, load SYSCALL_EXIT into a7, ECALL.
compile_ret(src) ==
    (IF src # A0
     THEN <<encode_type("IMM64", "ADDI", A0, src, 0, 0, 12)>>
     ELSE <<>>)
        \o encode_load_imm(A7, SYSCALL_EXIT)
        \o <<encode_type("SYSTEM", "ECALL", 0, 0, 0, 0, 12)>>

\* A call: each argument is moved to a1, a2, ... in order, unless it is
\* already there (src is the register of argument i); then the index of
\* the host function goes to a0, SYSCALL_HOST_CALL to a7, ECALL, and the
\* result is moved from a0 to rd.
compile_call(src, idx, rd) ==
    LET move[i \in 0 .. Len(src)] ==
            IF i = 0 THEN <<>>
            ELSE move[i - 1] \o
                 (IF src[i] # A1 + (i - 1)
                  THEN <<encode_type("IMM64", "ADDI", A1 + (i - 1), src[i], 0, 0, 12)>>
                  ELSE <<>>)
    IN  move[Len(src)]
            \o encode_load_imm(A0, idx)
            \o encode_load_imm(A7, SYSCALL_HOST_CALL)
            \o <<encode_type("SYSTEM", "ECALL", 0, 0, 0, 0, 12)>>
            \o (IF rd # A0
                THEN <<encode_type("IMM64", "ADDI", rd, A0, 0, 0, 12)>>
                ELSE <<>>)

\* A standalone icmp: SLT/SLTU directly, the others as
\* rd = 0; branch over the next instruction on the inverse; rd = 1.
compile_icmp(pred, rd, rs1, rs2) ==
    IF pred = "SLT" THEN <<encode_type("OP64", "SLT", rd, rs1, rs2, 0, 0)>>
    ELSE IF pred = "ULT" THEN <<encode_type("OP64", "SLTU", rd, rs1, rs2, 0, 0)>>
    ELSE <<encode_type("IMM64", "ADDI", rd, ZERO, 0, 0, 12),
           CASE pred = "EQ"  -> encode_type("BRANCH", "BNE", 0, rs1, rs2, 8, 13)
             [] pred = "NE"  -> encode_type("BRANCH", "BEQ", 0, rs1, rs2, 8, 13)
             [] pred = "SGE" -> encode_type("BRANCH", "BLT", 0, rs1, rs2, 8, 13)
             [] pred = "UGE" -> encode_type("BRANCH", "BLTU", 0, rs1, rs2, 8, 13)
             [] pred = "SGT" -> encode_type("BRANCH", "BGE", 0, rs2, rs1, 8, 13)
             [] pred = "UGT" -> encode_type("BRANCH", "BGEU", 0, rs2, rs1, 8, 13)
             [] pred = "SLE" -> encode_type("BRANCH", "BLT", 0, rs2, rs1, 8, 13)
             [] pred = "ULE" -> encode_type("BRANCH", "BLTU", 0, rs2, rs1, 8, 13),
           encode_type("IMM64", "ADDI", rd, ZERO, 0, 1, 12)>>

\* The branch an icmp fuses into: <<funct3, rs1, rs2>>.
try_get_icmp(pred, rs1, rs2) ==
    CASE pred = "EQ"  -> <<"BEQ", rs1, rs2>>
      [] pred = "NE"  -> <<"BNE", rs1, rs2>>
      [] pred = "SLT" -> <<"BLT", rs1, rs2>>
      [] pred = "SGE" -> <<"BGE", rs1, rs2>>
      [] pred = "ULT" -> <<"BLTU", rs1, rs2>>
      [] pred = "UGE" -> <<"BGEU", rs1, rs2>>
      [] pred = "SGT" -> <<"BLT", rs2, rs1>>
      [] pred = "UGT" -> <<"BLTU", rs2, rs1>>
      [] pred = "SLE" -> <<"BGE", rs2, rs1>>
      [] pred = "ULE" -> <<"BGEU", rs2, rs1>>

\* The bytes register_alloca reserves: demote_phi_to_stack turns the PHI of
\* branch_func into one alloca, stored at the end of each predecessor and
\* loaded where the PHI was.
total_alloca_size(f) == IF f.name = "branch_func" THEN 8 ELSE 0

\* Pass 1 of compile_function: the instructions of each block, in layout
\* order, branches with placeholder offsets.  A conditional branch is the
\* fused B-type to the true target and a JAL to the false one; a load or a
\* store of the integer type is LW / SW at offset 0 of the alloca's address.
compile_blocks(f) ==
    LET addr  == prepare_alloca(T1, total_alloca_size(f), -8)
        jal   == <<encode_type("JAL", "JAL", ZERO, 0, 0, 0, 21)>>
        store == <<encode_type("STORE", "SW", 0, T1, T0, 0, 12)>>
        load  == <<encode_type("LOAD", "LW", T0, T1, 0, 0, 12)>>
        icmp_info == try_get_icmp(f.pred, A0, A1)
        cond_br == <<encode_type("BRANCH", icmp_info[1], 0, icmp_info[2],
                                 icmp_info[3], 0, 13)>>
    IN  IF f.name = "add"
        THEN <<compile_binop(f.op, T0, A0, A1) \o compile_ret(T0)>>
        ELSE IF f.name = "test_caller"
        THEN <<compile_call([k \in DOMAIN f.args |-> A0 + (f.args[k] - 1)], 0, T0)
                   \o (IF f.op = "none"
                       THEN compile_ret(T0)
                       ELSE compile_binop(f.op, T1, T0, A0) \o compile_ret(T1))>>
        ELSE <<compile_icmp(f.pred, T0, A0, A1) \o cond_br \o jal,
               compile_binop("Add", T0, A0, A1) \o addr \o store \o jal,
               compile_binop("Sub", T0, A0, A1) \o addr \o store \o jal,
               addr \o load \o compile_ret(T0)>>

\* The stack frame prologue: SP -= total_alloca_size.
prologue(f) ==
    IF total_alloca_size(f) > 0
    THEN <<encode_type("IMM64", "ADDI", SP, SP, 0, -total_alloca_size(f), 12)>>
    ELSE <<>>

RECURSIVE concat_blocks(_, _)
concat_blocks(blocks, k) ==
    IF k = 0 THEN <<>> ELSE concat_blocks(blocks, k - 1) \o blocks[k]

\* layout.set_offset: the byte offset of block k.
block_offset(f, k) ==
    4 * (Len(prologue(f)) + Len(concat_blocks(compile_blocks(f), k - 1)))

\* The fixups recorded for the branches: the conditional branch of entry
\* (B-type to if_true, JAL to if_false) and the JAL of if_true and if_false
\* to merge.
fixups(f) ==
    IF f.name # "branch_func"
    THEN <<>>
    ELSE <<[byte_offset |-> block_offset(f, 2) - 8, target |-> 2, is_j_type |-> FALSE],
           [byte_offset |-> block_offset(f, 2) - 4, target |-> 3, is_j_type |-> TRUE],
           [byte_offset |-> block_offset(f, 3) - 4, target |-> 4, is_j_type |-> TRUE],
           [byte_offset |-> block_offset(f, 4) - 4, target |-> 4, is_j_type |-> TRUE]>>

\* compile_function: pass 1, then pass 2 re-encodes every recorded branch
\* with the offset of its target relative to itself.
compile_function(f) ==
    LET all_insns == prologue(f) \o concat_blocks(compile_blocks(f),
                                                  Len(compile_blocks(f)))
    IN  [i \in DOMAIN all_insns |->
            LET here == {k \in DOMAIN fixups(f) :
                            fixups(f)[k].byte_offset \div 4 + 1 = i}
            IN  IF here = {}
                THEN all_insns[i]
                ELSE LET fixup      == fixups(f)[CHOOSE k \in here : TRUE]
                         rel_offset == block_offset(f, fixup.target)
                                           - fixup.byte_offset
                         old_insn   == all_insns[i]
                     IN  IF fixup.is_j_type
                         THEN encode_type("JAL", "JAL", ZERO, 0, 0, rel_offset, 21)
                         ELSE encode_type("BRANCH", old_insn.funct, 0, old_insn.rs1,
                                          old_insn.rs2, rel_offset, 13)]

\* --- interpreter.py ---
\* LUI: imm20 << 12 as a 32-bit word, sign-extended to a register.
decode_u_imm(imm20) ==
    (IF imm20 >= Pow2(19) THEN (imm20 - Pow2(20)) * Pow2(12) ELSE imm20 * Pow2(12))
        % Pow2(VmRegBits)

\* A write to x0 is dropped.
write_reg(regs, rd, val) == IF rd = ZERO THEN regs ELSE [regs EXCEPT ![rd] = val]

\* The op64 sub-handlers, on registers.
op64_compute(funct, a, c) ==
    CASE funct = "ADD"  -> IrAdd(a, c, VmRegBits)
      [] funct = "SUB"  -> IrSub(a, c, VmRegBits)
      [] funct = "MUL"  -> IrMul(a, c, VmRegBits)
      [] funct = "AND"  -> IrAnd(a, c, VmRegBits)
      [] funct = "OR"   -> IrOr(a, c, VmRegBits)
      [] funct = "XOR"  -> IrXor(a, c, VmRegBits)
      [] funct = "SLT"  -> IF ir_icmp("SLT", a, c, VmRegBits) THEN 1 ELSE 0
      [] funct = "SLTU" -> IF ir_icmp("ULT", a, c, VmRegBits) THEN 1 ELSE 0

\* The branch sub-handlers compare the two registers at their full width.
branch_cond(funct, a, c) ==
    CASE funct = "BEQ"  -> ir_icmp("EQ", a, c, VmRegBits)
      [] funct = "BNE"  -> ir_icmp("NE", a, c, VmRegBits)
      [] funct = "BLT"  -> ir_icmp("SLT", a, c, VmRegBits)
      [] funct = "BGE"  -> ir_icmp("SGE", a, c, VmRegBits)
      [] funct = "BLTU" -> ir_icmp("ULT", a, c, VmRegBits)
      [] funct = "BGEU" -> ir_icmp("UGE", a, c, VmRegBits)

\* The stack slots of 8 bytes a frame of the model reaches, by address
\* (the stack starts at address 0).
VmSlots == {VM_STACK_SIZE - 16, VM_STACK_SIZE - 8}

\* The instruction at pc.
fetch_inst == vm_code[vm_ipc \div 4 + 1]

\* pc += 4.
advance_pc == IrAdd(vm_ipc, 4, VmRegBits)

\* The loop is at an instruction of opcode op (the header leaves the loop
\* when pc >= bc_len).
VmRunning(op) == vm_pc = "run" /\ vm_ipc < 4 * Len(vm_code) /\ fetch_inst.op = op

VmInit ==
    /\ vm_pc = "ir"
    /\ vm_func \in VmFuncs
    /\ vm_argv \in IntVals(VmIntBits) \X IntVals(VmIntBits)
    /\ vm_code = <<>>
    /\ vm_args = [i \in 0 .. 7 |-> 0]
    /\ vm_regs = [r \in 0 .. NUM_REGS - 1 |-> 0]
    /\ vm_ipc = 0
    \* the VM stack is an alloca of the interpreter: its content is undefined
    /\ \E g \in {0, Pow2(VmIntBits) - 1} : vm_stack = [s \in VmSlots |-> g]
    /\ vm_ret_slot = 0
    /\ vm_result = 0
    /\ vm_host = <<>>
    /\ vm_last = -1
    /\ OthersIdle("vm")

\* VirtualizationPass.run_on_module: the function is compiled and its body
\* replaced by the stub.
VmRunOnModule ==
    /\ vm_pc = "ir"
    /\ vm_code' = compile_function(vm_func)
    /\ vm_pc' = "virtualized"
    /\ UNCHANGED <<vm_func, vm_argv, vm_args, vm_regs, vm_ipc, vm_stack,
                   vm_ret_slot, vm_result,
                   vm_host, vm_last>>
    /\ Frame("vm")

\* The stub is called: every slot of the args array is zeroed, each
\* parameter is zero-extended into its slot, the return slot is zeroed.
VmStubCall ==
    /\ vm_pc = "virtualized"
    /\ vm_args' = [i \in 0 .. 7 |->
                      IF i < Len(vm_argv)
                      THEN IrZExt(vm_argv[i + 1], VmIntBits, VmRegBits)
                      ELSE 0]
    /\ vm_ret_slot' = 0
    /\ vm_pc' = "call"
    /\ UNCHANGED <<vm_func, vm_argv, vm_code, vm_regs, vm_ipc, vm_stack, vm_result,
                   vm_host, vm_last>>
    /\ Frame("vm")

\* The entry block of __vm_interpret: registers zeroed, SP at the top of
\* the stack minus 8, the 8 args slots copied into a0-a7, pc = 0.
VmInterpretEntry ==
    /\ vm_pc = "call"
    /\ vm_regs' = [r \in 0 .. NUM_REGS - 1 |->
                      IF r = SP THEN VM_STACK_SIZE - 8
                      ELSE IF r >= A0 /\ r < A0 + 8 THEN vm_args[r - A0]
                      ELSE 0]
    /\ vm_ipc' = 0
    /\ vm_pc' = "run"
    /\ vm_last' = -1
    /\ UNCHANGED <<vm_func, vm_argv, vm_code, vm_args, vm_stack, vm_ret_slot,
                   vm_result,
                   vm_host>>
    /\ Frame("vm")

\* handler.op64: rd = rs1 op rs2.  A dispatch key outside the switch goes
\* to op64.done, which only advances the pc.
VmOp64 ==
    /\ VmRunning("OP64")
    /\ LET inst == fetch_inst
       IN  vm_regs' =
               IF inst.funct = "unassigned"
               THEN vm_regs
               ELSE write_reg(vm_regs, inst.rd,
                              op64_compute(inst.funct, vm_regs[inst.rs1],
                                           vm_regs[inst.rs2]))
    /\ vm_ipc' = advance_pc
    /\ vm_last' = vm_ipc
    /\ UNCHANGED <<vm_pc, vm_func, vm_argv, vm_code, vm_args, vm_stack,
                   vm_ret_slot, vm_result, vm_host>>
    /\ Frame("vm")

\* handler.imm64, ADDI: rd = rs1 + sext(imm).
VmImm64 ==
    /\ VmRunning("IMM64")
    /\ LET inst == fetch_inst
           res  == IrAdd(vm_regs[inst.rs1], IrSExt(inst.imm, 12, VmRegBits),
                         VmRegBits)
       IN  /\ inst.funct = "ADDI"
           /\ vm_regs' = write_reg(vm_regs, inst.rd, res)
    /\ vm_ipc' = advance_pc
    /\ vm_last' = vm_ipc
    /\ UNCHANGED <<vm_pc, vm_func, vm_argv, vm_code, vm_args, vm_stack,
                   vm_ret_slot, vm_result, vm_host>>
    /\ Frame("vm")

\* handler.lui: rd = sext(imm20 << 12) and the pc advances; with rd = x0
\* the handler branches to the loop header and the pc does not move.
VmLui ==
    /\ VmRunning("LUI")
    /\ LET inst == fetch_inst
       IN  IF inst.rd = ZERO
           THEN UNCHANGED <<vm_regs, vm_ipc>>
           ELSE /\ vm_regs' = [vm_regs EXCEPT ![inst.rd] = decode_u_imm(inst.imm)]
                /\ vm_ipc' = advance_pc
    /\ vm_last' = vm_ipc
    /\ UNCHANGED <<vm_pc, vm_func, vm_argv, vm_code, vm_args, vm_stack,
                   vm_ret_slot, vm_result, vm_host>>
    /\ Frame("vm")

\* handler.auipc: rd = pc + sext(imm20 << 12) and the pc advances; with
\* rd = x0 the handler branches to the loop header and the pc does not move.
VmAuipc ==
    /\ VmRunning("AUIPC")
    /\ LET inst == fetch_inst
       IN  IF inst.rd = ZERO
           THEN UNCHANGED <<vm_regs, vm_ipc>>
           ELSE /\ vm_regs' = [vm_regs EXCEPT
                                  ![inst.rd] = IrAdd(vm_ipc, decode_u_imm(inst.imm),
                                                     VmRegBits)]
                /\ vm_ipc' = advance_pc
    /\ vm_last' = vm_ipc
    /\ UNCHANGED <<vm_pc, vm_func, vm_argv, vm_code, vm_args, vm_stack,
                   vm_ret_slot, vm_result, vm_host>>
    /\ Frame("vm")

\* handler.branch: pc += sext(imm13) when the condition holds, else pc += 4;
\* a funct3 outside the switch goes to branch.not_taken.
VmBranch ==
    /\ VmRunning("BRANCH")
    /\ LET inst == fetch_inst
           cond == IF inst.funct = "unassigned"
                   THEN FALSE
                   ELSE branch_cond(inst.funct, vm_regs[inst.rs1],
                                    vm_regs[inst.rs2])
       IN  vm_ipc' = IF cond
                     THEN IrAdd(vm_ipc, IrSExt(inst.imm, 13, VmRegBits), VmRegBits)
                     ELSE advance_pc
    /\ vm_last' = vm_ipc
    /\ UNCHANGED <<vm_pc, vm_func, vm_argv, vm_code, vm_args, vm_regs, vm_stack,
                   vm_ret_slot, vm_result, vm_host>>
    /\ Frame("vm")

\* handler.jal: rd = pc + 4 (dropped for x0), pc += sext(imm21).
VmJal ==
    /\ VmRunning("JAL")
    /\ LET inst == fetch_inst
       IN  /\ vm_regs' = write_reg(vm_regs, inst.rd, advance_pc)
           /\ vm_ipc' = IrAdd(vm_ipc, IrSExt(inst.imm, 21, VmRegBits), VmRegBits)
    /\ vm_last' = vm_ipc
    /\ UNCHANGED <<vm_pc, vm_func, vm_argv, vm_code, vm_args, vm_stack,
                   vm_ret_slot, vm_result, vm_host>>
    /\ Frame("vm")

\* handler.load, LW: rd = sext of the word at rs1 + sext(imm).  A funct3
\* outside the switch goes to load.done, which only advances the pc.
VmLoad ==
    /\ VmRunning("LOAD")
    /\ LET inst == fetch_inst
           addr == IrAdd(vm_regs[inst.rs1], IrSExt(inst.imm, 12, VmRegBits),
                         VmRegBits)
       IN  IF inst.funct = "unassigned"
           THEN UNCHANGED vm_regs
           ELSE /\ inst.funct = "LW"
                /\ addr \in VmSlots
                /\ vm_regs' = write_reg(vm_regs, inst.rd,
                                        IrSExt(vm_stack[addr], VmIntBits, VmRegBits))
    /\ vm_ipc' = advance_pc
    /\ vm_last' = vm_ipc
    /\ UNCHANGED <<vm_pc, vm_func, vm_argv, vm_code, vm_args, vm_stack,
                   vm_ret_slot, vm_result, vm_host>>
    /\ Frame("vm")

\* handler.store, SW: the word at rs1 + sext(imm) = trunc of rs2, and the
\* pc advances.  A funct3 outside the switch goes to the loop header and
\* the pc does not move.
VmStore ==
    /\ VmRunning("STORE")
    /\ LET inst == fetch_inst
           addr == IrAdd(vm_regs[inst.rs1], IrSExt(inst.imm, 12, VmRegBits),
                         VmRegBits)
       IN  IF inst.funct = "unassigned"
           THEN UNCHANGED <<vm_stack, vm_ipc>>
           ELSE /\ inst.funct = "SW"
                /\ addr \in VmSlots
                /\ vm_stack' = [vm_stack EXCEPT
                                   ![addr] = IrTrunc(vm_regs[inst.rs2], VmIntBits)]
                /\ vm_ipc' = advance_pc
    /\ vm_last' = vm_ipc
    /\ UNCHANGED <<vm_pc, vm_func, vm_argv, vm_code, vm_args, vm_regs,
                   vm_ret_slot, vm_result, vm_host>>
    /\ Frame("vm")

\* handler.system with a7 = SYSCALL_EXIT, or the loop header with
\* pc >= bc_len: the exit block copies a0 to the return slot and returns.
VmExit ==
    /\ vm_pc = "run"
    /\ IF vm_ipc >= 4 * Len(vm_code)
       THEN TRUE
       ELSE fetch_inst.op = "SYSTEM" /\ vm_regs[A7] = SYSCALL_EXIT
    /\ vm_ret_slot' = vm_regs[A0]
    /\ vm_pc' = "exit"
    /\ UNCHANGED <<vm_func, vm_argv, vm_code, vm_args, vm_regs, vm_ipc, vm_stack,
                   vm_result, vm_host, vm_last>>
    /\ Frame("vm")

\* handler.system with a7 = SYSCALL_HOST_CALL: the function at a0 in the
\* host table is called with a1 ... a6 and its result is stored in a0.  The
\* call is recorded with the arguments the function declares.
VmHostCall ==
    /\ VmRunning("SYSTEM")
    /\ vm_regs[A7] = SYSCALL_HOST_CALL
    /\ LET host_idx  == vm_regs[A0]
           host_args == [i \in 1 .. 6 |-> vm_regs[A1 + (i - 1)]]
           declared  == SubSeq(host_args, 1, Len(vm_func.args))
           result    == host_function(declared, VmRegBits)
       IN  /\ vm_host' = Append(vm_host, [idx |-> host_idx, args |-> declared])
           /\ vm_regs' = [vm_regs EXCEPT ![A0] = result]
    /\ vm_ipc' = advance_pc
    /\ vm_last' = vm_ipc
    /\ UNCHANGED <<vm_pc, vm_func, vm_argv, vm_code, vm_args, vm_stack,
                   vm_ret_slot, vm_result>>
    /\ Frame("vm")

\* sys.other (a7 is neither syscall) and the default handler (an opcode
\* outside the switch of the loop body): the pc advances.
VmDefault ==
    /\ vm_pc = "run"
    /\ vm_ipc < 4 * Len(vm_code)
    /\ IF fetch_inst.op = "SYSTEM"
       THEN vm_regs[A7] \notin {SYSCALL_EXIT, SYSCALL_HOST_CALL}
       ELSE fetch_inst.op \notin {"OP64", "IMM64", "LUI", "AUIPC", "BRANCH",
                                  "JAL", "LOAD", "STORE"}
    /\ vm_ipc' = advance_pc
    /\ vm_last' = vm_ipc
    /\ UNCHANGED <<vm_pc, vm_func, vm_argv, vm_code, vm_args, vm_regs, vm_stack,
                   vm_ret_slot, vm_result, vm_host>>
    /\ Frame("vm")

\* The stub returns the return slot truncated to the return type.
VmStubReturn ==
    /\ vm_pc = "exit"
    /\ vm_result' = IrTrunc(vm_ret_slot, VmIntBits)
    /\ vm_pc' = "returned"
    /\ UNCHANGED <<vm_func, vm_argv, vm_code, vm_args, vm_regs, vm_ipc, vm_stack,
                   vm_ret_slot, vm_host, vm_last>>
    /\ Frame("vm")

SpecVm ==
    VmInit /\ [][VmRunOnModule \/ VmStubCall \/ VmInterpretEntry \/ VmOp64
                 \/ VmImm64 \/ VmLui \/ VmBranch \/ VmJal \/ VmLoad
                 \/ VmStore \/ VmHostCall \/ VmExit \/ VmStubReturn]_vars

\* __vm_interpret called on a bytecode buffer that is not the output of
\* compile_function: one instruction word of every opcode the loop body
\* dispatches on and of one it does not (FENCE), with rd = x0 and rd = t0,
\* and with a funct3 outside the switch of the handler where there is one.
\* a0 and a7 of the args array are arbitrary.
VmBytecodeInit ==
    /\ vm_pc = "call"
    /\ vm_func = [name |-> "bytecode", op |-> "none", pred |-> "none",
                  args |-> <<1>>]
    /\ vm_argv = <<0, 0>>
    /\ \E rd \in {ZERO, T0}, imm \in {0, 4, 8} :
          vm_code \in
              {<<encode_type("OP64", funct, rd, A0, A1, 0, 0)>> :
                   funct \in {"ADD", "SLT", "unassigned"}}
              \cup {<<encode_type("IMM64", "ADDI", rd, A0, 0, imm, 12)>>,
                    <<encode_type("LUI", "LUI", rd, 0, 0, imm, 20)>>,
                    <<encode_type("AUIPC", "AUIPC", rd, 0, 0, imm, 20)>>,
                    <<encode_type("JAL", "JAL", rd, 0, 0, imm, 21)>>,
                    <<encode_type("SYSTEM", "ECALL", 0, 0, 0, 0, 12)>>,
                    <<encode_type("FENCE", "FENCE", rd, 0, 0, imm, 12)>>}
              \cup {<<encode_type("BRANCH", funct, 0, A0, A1, imm, 13)>> :
                       funct \in {"BEQ", "BNE", "unassigned"}}
              \cup {<<encode_type("LOAD", funct, rd, SP, 0, 0, 12)>> :
                       funct \in {"LW", "unassigned"}}
              \cup {<<encode_type("STORE", funct, 0, SP, A0, 0, 12)>> :
                       funct \in {"SW", "unassigned"}}
    /\ \E a0 \in {0, 1}, a7 \in {0, SYSCALL_EXIT, SYSCALL_HOST_CALL} :
          vm_args = [i \in 0 .. 7 |-> IF i = 0 THEN a0 ELSE IF i = 7 THEN a7 ELSE 0]
    /\ vm_regs = [r \in 0 .. NUM_REGS - 1 |-> 0]
    /\ vm_ipc = 0
    /\ \E g \in {0, Pow2(VmIntBits) - 1} : vm_stack = [s \in VmSlots |-> g]
    /\ vm_ret_slot = 0
    /\ vm_result = 0
    /\ vm_host = <<>>
    /\ vm_last = -1
    /\ OthersIdle("vm")

SpecInterp ==
    VmBytecodeInit /\ [][VmInterpretEntry \/ VmOp64 \/ VmImm64 \/ VmLui
                         \/ VmAuipc \/ VmBranch \/ VmJal \/ VmLoad \/ VmStore
                         \/ VmHostCall \/ VmDefault \/ VmExit]_vars

\* C1: when the call of a virtualized function has returned, the value it
\* returned is the value the original function returns on the same
\* arguments.
VmReturnsOriginal ==
    vm_pc = "returned" =>
        vm_result = original_result(vm_func, vm_argv[1], vm_argv[2])

\* C20: every call of the host function receives the values of the call's
\* arguments, in order: argument k is the value of the parameter the call
\* names at position k.
VmHostArgsInOrder ==
    \A c \in 1 .. Len(vm_host) :
        vm_host[c].args =
            [k \in DOMAIN vm_func.args |->
                IrZExt(vm_argv[vm_func.args[k]], VmIntBits, VmRegBits)]

(***************************************************************************)
(* RegisterAllocator (riscybusiness_vm/compiler.py) and the places of      *)
(* compile_function that call it.  A value is known by its hash: the       *)
(* values of the function are 1 .. RaNumValues, the case constants of a    *)
(* switch are 100 + k.  The allocator object is the record                 *)
(* [map, persistent, available, used_local]; used_local is the dict in     *)
(* insertion order, as pairs <<register, hash>>.  Beside it ra_holds       *)
(* tells, for each register, the value the emitted code has last written   *)
(* to it, which is what an instruction reading it will get (0: none, or a  *)
(* value that is past its last use); ra_live is the set of values that are *)
(* defined and not past their last use; ra_read and ra_switch record what  *)
(* the instructions emitted by the last step read.                         *)
(***************************************************************************)
RaNumTemps == 2
RaNumValues == 3
RaMaxCases == 2
RaMaxAllocas == 3

\* get_or_assign that keeps the map entry of the value it evicts.
get_or_assign_keep(a, h) ==
    IF h \in DOMAIN a.map
    THEN [ra |-> a, reg |-> a.map[h], raised |-> FALSE]
    ELSE IF a.available = <<>> /\ a.used_local = <<>>
    THEN [ra |-> a, reg |-> ZERO, raised |-> TRUE]
    ELSE LET b   == IF a.available = <<>>
                    THEN [a EXCEPT !.used_local = Tail(a.used_local),
                                   !.available = <<a.used_local[1][1]>>]
                    ELSE a
             reg == b.available[Len(b.available)]
         IN  [ra |-> [b EXCEPT
                         !.available = SubSeq(b.available, 1, Len(b.available) - 1),
                         !.map = [x \in DOMAIN b.map \cup {h} |->
                                     IF x = h THEN reg ELSE b.map[x]],
                         !.used_local = IF h \in b.persistent
                                        THEN b.used_local
                                        ELSE Append(b.used_local, <<reg, h>>)],
              reg |-> reg, raised |-> FALSE]

\* RegisterAllocator.get_or_assign on the allocator a: the register of h
\* when it has one; else, with no register available, the first entry of
\* used_local is evicted (its map entry deleted, its register made
\* available; nothing is emitted) or ValueError is raised when there is
\* none; then the last available register is popped and given to h.
get_or_assign(a, h) ==
    IF h \in DOMAIN a.map
    THEN [ra |-> a, reg |-> a.map[h], raised |-> FALSE]
    ELSE IF a.available = <<>> /\ a.used_local = <<>>
    THEN [ra |-> a, reg |-> ZERO, raised |-> TRUE]
    ELSE LET b   == IF a.available = <<>>
                    THEN [a EXCEPT !.map = [x \in DOMAIN a.map \ {a.used_local[1][2]}
                                               |-> a.map[x]],
                                   !.used_local = Tail(a.used_local),
                                   !.available = <<a.used_local[1][1]>>]
                    ELSE a
             reg == b.available[Len(b.available)]
         IN  [ra |-> [b EXCEPT
                         !.available = SubSeq(b.available, 1, Len(b.available) - 1),
                         !.map = [x \in DOMAIN b.map \cup {h} |->
                                     IF x = h THEN reg ELSE b.map[x]],
                         !.used_local = IF h \in b.persistent
                                        THEN b.used_local
                                        ELSE Append(b.used_local, <<reg, h>>)],
              reg |-> reg, raised |-> FALSE]

\* RegisterAllocator(): nothing mapped, the temporaries available in
\* reverse order (pop() hands out t0 first), no alloca.
RaInit ==
    /\ ra_alloc = [map |-> <<>>, persistent |-> {},
                   available |-> [i \in 1 .. RaNumTemps |-> T0 + RaNumTemps - i],
                   used_local |-> <<>>]
    /\ ra_num_args = 0
    /\ ra_allocas = <<>>
    /\ ra_holds = [r \in (T0 .. T0 + RaNumTemps - 1)
                             \cup (A0 .. A0 + RaNumValues - 1) |-> 0]
    /\ ra_live = {}
    /\ ra_read = <<>>
    /\ ra_switch = <<>>
    /\ ra_raised = FALSE
    /\ OthersIdle("ra")

\* assign_arg(param, index), called by compile_function for the parameters
\* in order before anything else is mapped: the parameter lives in
\* a(index), where the stub has put it.
RaAssignArg ==
    /\ ~ra_raised
    /\ \E h \in (1 .. RaNumValues) \ (ra_live \cup DOMAIN ra_alloc.map) :
          /\ ra_alloc' = [ra_alloc EXCEPT
                             !.map = [x \in DOMAIN ra_alloc.map \cup {h} |->
                                         IF x = h THEN A0 + ra_num_args
                                         ELSE ra_alloc.map[x]],
                             !.persistent = ra_alloc.persistent \cup {h}]
          /\ ra_holds' = [ra_holds EXCEPT ![A0 + ra_num_args] = h]
          /\ ra_live' = ra_live \cup {h}
    /\ ra_num_args' = ra_num_args + 1
    /\ ra_read' = <<>>
    /\ ra_switch' = <<>>
    /\ UNCHANGED <<ra_allocas, ra_raised>>
    /\ Frame("ra")

\* register_alloca, called in the pre-scan of compile_function for every
\* alloca of the function: the next 8 bytes below the previous alloca,
\* whatever the allocated type (`size` is the size of that type in bytes).
RaRegisterAlloca ==
    /\ Len(ra_allocas) < RaMaxAllocas
    /\ \E size \in {1, 2, 4, 8, 16, 32} :
          ra_allocas' = Append(ra_allocas,
                               [size |-> size, offset |-> -8 * (Len(ra_allocas) + 1)])
    /\ UNCHANGED <<ra_alloc, ra_num_args, ra_holds, ra_live, ra_read, ra_switch,
                   ra_raised>>
    /\ Frame("ra")

\* mark_persistent(value).
RaMarkPersistent ==
    /\ ~ra_raised
    /\ \E h \in 1 .. RaNumValues :
          ra_alloc' = [ra_alloc EXCEPT
                          !.persistent = ra_alloc.persistent \cup {h},
                          !.used_local = SelectSeq(ra_alloc.used_local,
                                                   LAMBDA e : e[2] # h)]
    /\ ra_read' = <<>>
    /\ ra_switch' = <<>>
    /\ UNCHANGED <<ra_num_args, ra_allocas, ra_holds, ra_live, ra_raised>>
    /\ Frame("ra")

\* _compile_instruction for an instruction with one value operand (a load,
\* a cast, a binary operation with a constant): rd = get_or_assign(inst),
\* then the operand through _prepare_operand, which for a value that is
\* not an alloca, a constant or a global is get_or_assign(operand) with no
\* instruction emitted.  The emitted instruction reads the operand's
\* register and writes rd.  The operand is a value defined earlier in the
\* block and not past its last use, or a parameter.
RaCompileInstruction ==
    /\ ~ra_raised
    /\ \E inst \in (1 .. RaNumValues) \ (ra_live \cup DOMAIN ra_alloc.map),
          operand \in ra_live :
          LET d == get_or_assign(ra_alloc, inst)
              s == get_or_assign(d.ra, operand)
          IN  IF d.raised \/ s.raised
              THEN /\ ra_raised' = TRUE
                   /\ ra_read' = <<>>
                   /\ UNCHANGED <<ra_alloc, ra_holds, ra_live>>
              ELSE /\ ra_alloc' = s.ra
                   /\ ra_read' = [want |-> operand, got |-> ra_holds[s.reg]]
                   /\ ra_holds' = [ra_holds EXCEPT ![d.reg] = inst]
                   /\ ra_live' = ra_live \cup {inst}
                   /\ UNCHANGED ra_raised
    /\ ra_switch' = <<>>
    /\ UNCHANGED <<ra_num_args, ra_allocas>>
    /\ Frame("ra")

\* compile_function on a switch with num_cases cases: the register of the
\* condition through _prepare_operand, then for each case
\* tmp_reg = get_or_assign(case_val), the constant loaded into tmp_reg and
\* BEQ cond_reg, tmp_reg; then the JAL to the default block.  Each BEQ is
\* recorded with the values its two registers hold when it runs.
RaSwitch ==
    /\ ~ra_raised
    /\ \E cond \in ra_live, num_cases \in 1 .. RaMaxCases :
          LET c == get_or_assign(ra_alloc, cond)
              cases[ci \in 0 .. num_cases] ==
                  IF ci = 0
                  THEN [ra |-> c.ra, holds |-> ra_holds, beq |-> <<>>,
                        raised |-> c.raised]
                  ELSE LET prev == cases[ci - 1]
                           t    == get_or_assign(prev.ra, 100 + ci)
                           held == [prev.holds EXCEPT ![t.reg] = 100 + ci]
                       IN  IF prev.raised \/ t.raised
                           THEN [prev EXCEPT !.raised = TRUE]
                           ELSE [ra |-> t.ra, holds |-> held,
                                 beq |-> Append(prev.beq,
                                                <<held[c.reg], held[t.reg]>>),
                                 raised |-> FALSE]
              done == cases[num_cases]
          IN  IF done.raised
              THEN /\ ra_raised' = TRUE
                   /\ ra_switch' = <<>>
                   /\ UNCHANGED <<ra_alloc, ra_holds>>
              ELSE /\ ra_alloc' = done.ra
                   /\ ra_holds' = [r \in DOMAIN ra_holds |->
                                      IF done.holds[r] \in ra_live
                                      THEN done.holds[r] ELSE 0]
                   /\ ra_switch' = [cond |-> cond, beq |-> done.beq]
                   /\ UNCHANGED ra_raised
    /\ ra_read' = <<>>
    /\ UNCHANGED <<ra_num_args, ra_allocas, ra_live>>
    /\ Frame("ra")

\* free_by_hash(h), called by compile_function after the instruction that
\* is the last use of h in the block: no-op for a persistent or unmapped
\* hash, else the register goes back to the available ones.
RaFreeByHash ==
    /\ ~ra_raised
    /\ \E h \in (1 .. RaNumValues) \cup {100 + ci : ci \in 1 .. RaMaxCases} :
          /\ ra_alloc' =
                IF h \in ra_alloc.persistent \/ h \notin DOMAIN ra_alloc.map
                THEN ra_alloc
                ELSE [ra_alloc EXCEPT
                         !.map = [x \in DOMAIN ra_alloc.map \ {h} |-> ra_alloc.map[x]],
                         !.used_local = SelectSeq(ra_alloc.used_local,
                                                  LAMBDA e : e[1] # ra_alloc.map[h]),
                         !.available = Append(ra_alloc.available, ra_alloc.map[h])]
          /\ ra_live' = IF h \in ra_alloc.persistent THEN ra_live ELSE ra_live \ {h}
          /\ ra_holds' = [r \in DOMAIN ra_holds |->
                             IF ra_holds[r] = h /\ h \notin ra_alloc.persistent
                             THEN 0 ELSE ra_holds[r]]
    /\ ra_read' = <<>>
    /\ ra_switch' = <<>>
    /\ UNCHANGED <<ra_num_args, ra_allocas, ra_raised>>
    /\ Frame("ra")

\* reset_block_locals(), called at the start of every block: every entry
\* of used_local is unmapped and its register made available.  The values
\* of the block that ended are not used in the next one (demote_regs_to_stack
\* has moved such values to the stack).
RaResetBlockLocals ==
    /\ ~ra_raised
    /\ LET locals == {ra_alloc.used_local[i][2] : i \in DOMAIN ra_alloc.used_local}
       IN  ra_alloc' = [ra_alloc EXCEPT
                           !.map = [x \in DOMAIN ra_alloc.map \ locals |->
                                       ra_alloc.map[x]],
                           !.available = ra_alloc.available \o
                                         [i \in DOMAIN ra_alloc.used_local |->
                                             ra_alloc.used_local[i][1]],
                           !.used_local = <<>>]
    /\ ra_live' = ra_live \cap ra_alloc.persistent
    /\ ra_holds' = [r \in DOMAIN ra_holds |->
                       IF ra_holds[r] \in ra_alloc.persistent THEN ra_holds[r] ELSE 0]
    /\ ra_read' = <<>>
    /\ ra_switch' = <<>>
    /\ UNCHANGED <<ra_num_args, ra_allocas, ra_raised>>
    /\ Frame("ra")

\* The register side of the allocator.
SpecRa ==
    RaInit /\ [][RaAssignArg \/ RaMarkPersistent \/ RaCompileInstruction
                 \/ RaSwitch \/ RaFreeByHash \/ RaResetBlockLocals]_vars

\* The alloca side of the allocator: it shares no field with the register
\* side.
SpecRaAlloca ==
    RaInit /\ [][RaRegisterAlloca]_vars

RaAllocasDisjoint ==
    LET addr(k) == (VM_STACK_SIZE - 8) + ra_allocas[k].offset
    IN  \A k \in DOMAIN ra_allocas :
            /\ 0 <= addr(k)
            /\ addr(k) + ra_allocas[k].size <= VM_STACK_SIZE
            /\ \A j \in DOMAIN ra_allocas :
                   j < k => addr(k) + ra_allocas[k].size <= addr(j)

FvMaxBlocks == 257

\* run_on_function on a function with n_blocks flattened blocks: the
\* visited array [n_blocks x i8], the store of 0 through
\* gep(i8, visited_array, [i8.constant(i)]) for every i in entry, and in
\* block idx the load and store through
\* gep(i8, visited_array, [i8.constant(idx)]).  The numbers of blocks are
\* the smallest ones and those around the limits of the signed and of the
\* unsigned 8-bit range.
FvInit ==
    /\ fv_n \in {n \in 1 .. FvMaxBlocks :
                     \/ n <= 2
                     \/ (Pow2(7) - 1 <= n /\ n <= Pow2(7) + 1)
                     \/ Pow2(8) <= n}
    /\ fv_pc \in (IF fv_n > Pow2(8) THEN {"entry", "raised"} ELSE {"entry"})
    /\ fv_zeroed = {}
    /\ fv_access = <<>>
    /\ OthersIdle("fv")

\* The entry block runs: the elements the n_blocks initialising stores
\* address.
FvExecEntry ==
    /\ fv_pc = "entry"
    /\ fv_pc' = "run"
    /\ fv_zeroed' = {LET p == i % Pow2(8)
                     IN  IF p >= Pow2(7) THEN p - Pow2(8) ELSE p :
                        i \in 0 .. fv_n - 1}
    /\ UNCHANGED <<fv_n, fv_access>>
    /\ Frame("fv")

\* Block idx runs: the element its load of the flag and its store of 1
\* address.
FvExecBlock ==
    /\ fv_pc = "run"
    /\ \E idx \in 0 .. fv_n - 1 :
          LET p == idx % Pow2(8)
          IN  fv_access' = [block |-> idx,
                            elem |-> IF p >= Pow2(7) THEN p - Pow2(8) ELSE p]
    /\ UNCHANGED <<fv_pc, fv_n, fv_zeroed>>
    /\ Frame("fv")

SpecFv ==
    FvInit /\ [][FvExecEntry \/ FvExecBlock]_vars

\* C29: the flag initialised, read and set for block i is element i of the
\* n_blocks elements of the visited array, for every number of blocks: the
\* accesses are in bounds and no two blocks share a flag.
FvFlagIsOwnElement ==
    /\ fv_pc = "run" => fv_zeroed = 0 .. fv_n - 1
    /\ fv_access # <<>> =>
           /\ fv_access.elem = fv_access.block
           /\ fv_access.elem \in 0 .. fv_n - 1

(***************************************************************************)
(* Constant loading at the widths of the machine: _encode_load_imm         *)
(* (compiler.py) and the LUI and ADDI handlers of the interpreter on a     *)
(* 64-bit register.  A register value v is kept as <<v div 4096,           *)
(* v mod 4096>>, the first component signed.                               *)
(***************************************************************************)
\* The constants: 32-bit patterns below 2^31, around the limits of the
\* 12-bit and of the 20-bit field.
LiInit ==
    /\ li_pc = "constant"
    /\ \E upper \in {0, 1, 2, Pow2(18), Pow2(19) - 2, Pow2(19) - 1},
          lower \in {0, 1, 2047, 2048, 2049, 4095} :
          li_c = upper * Pow2(12) + lower
    /\ li_code = <<>>
    /\ li_k = 0
    /\ li_reg = <<0, 0>>
    /\ OthersIdle("li")

\* _encode_load_imm(t0, c); the register file is zeroed on entry.
LiEncode ==
    /\ li_pc = "constant"
    /\ li_code' = encode_load_imm(T0, li_c)
    /\ li_k' = 1
    /\ li_pc' = "run"
    /\ UNCHANGED <<li_c, li_reg>>
    /\ Frame("li")

\* handler.lui: t0 = sext(imm20 << 12), a 32-bit word sign-extended to 64.
LiLui ==
    /\ li_pc = "run"
    /\ li_k <= Len(li_code)
    /\ li_code[li_k].op = "LUI"
    /\ LET imm20 == li_code[li_k].imm
       IN  li_reg' = <<IF imm20 >= Pow2(19) THEN imm20 - Pow2(20) ELSE imm20, 0>>
    /\ li_k' = li_k + 1
    /\ UNCHANGED <<li_pc, li_c, li_code>>
    /\ Frame("li")

\* handler.imm64, ADDI: t0 = rs1 + sext(imm12), rs1 being x0 or t0.
LiAddi ==
    /\ li_pc = "run"
    /\ li_k <= Len(li_code)
    /\ li_code[li_k].op = "IMM64"
    /\ LET inst == li_code[li_k]
           rs1  == IF inst.rs1 = ZERO THEN <<0, 0>> ELSE li_reg
           imm  == IF inst.imm >= Pow2(11) THEN inst.imm - Pow2(12) ELSE inst.imm
           low  == rs1[2] + imm
       IN  li_reg' = <<rs1[1] + (IF low < 0 THEN -1
                                 ELSE IF low >= Pow2(12) THEN 1 ELSE 0),
                       low % Pow2(12)>>
    /\ li_k' = li_k + 1
    /\ UNCHANGED <<li_pc, li_c, li_code>>
    /\ Frame("li")

SpecLi ==
    LiInit /\ [][LiEncode \/ LiLui \/ LiAddi]_vars

\* C25: when the sequence emitted for the constant c has run to its end,
\* the destination register holds c.
LiLoadsConstant ==
    (li_pc = "run" /\ li_k > Len(li_code)) =>
        li_reg = <<li_c \div Pow2(12), li_c % Pow2(12)>>

\* C23: the registers that hold the integer values of branch_func (the
\* parameters in a0 and a1, the values computed or loaded into t0) hold
\* the extension the stub gives to a parameter, and the branch the icmp
\* is fused into decides as the icmp decides at the width of its type.
VmRegistersExtendAlike ==
    (vm_pc = "run" /\ vm_func.name = "branch_func") =>
        /\ \A r \in {A0, A1, T0} :
               vm_regs[r] = IrZExt(vm_regs[r], VmIntBits, VmRegBits)
        /\ (VmRunning("BRANCH") /\ vm_ipc = block_offset(vm_func, 2) - 8) =>
               branch_cond(fetch_inst.funct, vm_regs[fetch_inst.rs1],
                           vm_regs[fetch_inst.rs2])
                   = ir_icmp(vm_func.pred, vm_argv[1], vm_argv[2], VmIntBits)

\* C28: an instruction that runs after a host call has returned and reads
\* a register of a0 .. a(num_params) reads the value the register had on
\* entry (the operation of test_caller reads parameter a in a0).
VmParamsSurviveCall ==
    (VmRunning("OP64") /\ vm_func.name = "test_caller" /\ vm_host # <<>>) =>
        \A r \in {fetch_inst.rs1, fetch_inst.rs2} \cap (A0 .. A0 + Len(vm_argv)) :
            vm_regs[r] = vm_args[r - A0]

\* C26: when the loop is back at its header after an instruction other
\* than EXIT, the pc is the pc of that instruction plus 4, or plus its
\* immediate when it is a branch or a jump.
VmPcAdvances ==
    (vm_pc = "run" /\ vm_last >= 0) =>
        LET inst == vm_code[vm_last \div 4 + 1]
        IN  \/ vm_ipc = IrAdd(vm_last, 4, VmRegBits)
            \/ /\ inst.op \in {"BRANCH", "JAL"}
               /\ vm_ipc = IrAdd(vm_last,
                                 IrSExt(inst.imm, IF inst.op = "JAL" THEN 21 ELSE 13,
                                        VmRegBits),
                                 VmRegBits)

====
